---- MODULE Spec2Model ----
(***************************************************************************)
(* Model of the download service of src/app.py: the job table, the         *)
(* bounded-concurrency scheduler of submit_download (a counting semaphore  *)
(* and the _pending_jobs wait list) and the worker run_download.           *)
(*                                                                         *)
(* Every job id stands for one /api/download request.  A request thread    *)
(* runs api_download (clean_old_jobs, make_job, submit_download) and then  *)
(* starts the worker thread of the job; pc[j] is the position of that      *)
(* request-then-worker thread.  One action is one step that is atomic in   *)
(* the code: one critical section of a lock, or one call of an external    *)
(* collaborator together with the bookkeeping private to the job.          *)
(*                                                                         *)
(* Fields of a job record that no modelled operation reads (speed, eta,    *)
(* title, url, created_at, filename, filepath) are left out; filename and  *)
(* filepath always equal original_filename and original_filepath.          *)
(***************************************************************************)
EXTENDS Integers, Sequences, FiniteSets, TLC

\* ------------------------------------------------------------------ bounds

NumJobs == 3
MaxCapacity == 2
MaxHooks == 2
MaxRichJobs == 1
MaxPool == 3
NumCallers == 3
MaxCalls == 5
MaxUsers == 2
MaxApiJobs == 2
MaxEntries == 3
MaxSeconds == 2
MaxBlocks == 3
MaxResult == 2
MaxBlockResult == 1
NumThreads == 2
NumStreams == 1
MaxStreamJobs == 2
MaxWait == 1
MaxSweepJobs == 2
MaxChangeCallers == 2
MaxChangeCalls == 3
MaxFetchJobs == 2
MaxTableJobs == 2
\* BATCH_SIZE (15 in the source), the limit on the combined text of a batch
\* (4500) and the cut of a single text (4000), scaled down to the texts of
\* the model
BATCH_SIZE == 2
COMBINED_LIMIT == 9
TEXT_LIMIT == 2

JobIds == 1..NumJobs

\* The first MaxRichJobs requests meet every behaviour of the collaborators
\* (any quality, subtitle burn-in, progress callbacks, failures); the later
\* requests are plain downloads: quality best, no burn-in, no callback and
\* no failure.
RichJobs == 1..MaxRichJobs

\* percentages reported by the extraction service (_percent_str)
Pcts == {0, 50, 100}
\* raw burn-in completion, cur_us / duration_us * 100, before the cap at 99
BurnRaw == {50, 120}

Qualities == {"best", "audio"}

\* the files yt_*.txt that may sit in the credential directory, named by
\* their rank in file name order
CookieIds == 1..MaxPool

\* the threads that ask for credentials
Callers == 1..NumCallers

\* the values of the cookie vid_uid, numbered in the order in which
\* _ensure_uid issued them
Users == 1..MaxUsers

\* ------------------------------------------------------------------ state

VARIABLES
    MAX_CONCURRENT_DOWNLOADS, \* capacity read from the environment at start
    jobs,            \* the job table: job id -> record
    download_sem,    \* value of the counting semaphore _download_sem
    sem_waiters,     \* threads asleep in _download_sem.acquire(), in order
    pending_jobs,    \* the wait list _pending_jobs
    pending_lock,    \* holder of _pending_lock, NoThread when free
    pc,              \* position of the request/worker thread of each job
    args,            \* quality and burn_subtitle of each request
    pos,             \* local `pos` of submit_download
    loop_i,          \* index of the enumerate loop of _worker
    hooks,           \* callbacks delivered by the running collaborator call
    files,           \* artifacts of the job directory and their age
    sub_file,        \* local `sub_file` of run_download
    cookie_files,    \* the files yt_*.txt of COOKIES_DIR
    pool_idx,        \* the rotation cursor _pool_idx
    pool_lock,       \* holder of _pool_lock, NoThread when free
    cpc,             \* position of each thread that asks for credentials
    kind,            \* what each of those threads runs
    pool,            \* local `pool` of get_next_cookie
    idx,             \* local `idx` of get_next_cookie
    cookiefile,      \* the cookiefile option the thread ended up with
    served,          \* the passes through the section under _pool_lock
    response,        \* the latest answer of a read endpoint
    srt_file,        \* the entries of the subtitle file _fix_srt_overlaps works on
    fix_pc,          \* position of the thread inside _fix_srt_overlaps
    entries,         \* local `entries` of _fix_srt_overlaps
    fixed,           \* local `fixed` of _fix_srt_overlaps
    prev_end_ms,     \* local `prev_end_ms` of _fix_srt_overlaps
    entry_i,         \* position of the loop `for entry in entries`
    tr_pc,           \* position of the thread inside _translate_srt_to_chinese
    matches,         \* local `matches`: index and time range of each block
    texts,           \* local `texts`
    translated,      \* local `translated`
    start,           \* the loop variable `start` of the batches
    block_i,         \* the loop variable `i` of the block-by-block calls
    service_log,     \* the calls of the translation service and their outcomes
    held,            \* holder of jobs_lock, _pending_lock and _pool_lock
    lpc,             \* position of each thread in its sequence of sections
    waiting,         \* the external call a thread is waiting for, if any
    stream_pc,       \* position of each generator of api_progress
    stream_job,      \* the job_id of the route of each stream
    deadline,        \* rounds left of the wait for the record to appear
    last_event,      \* status of the event a stream yielded last
    terminal_events, \* terminal events a stream has yielded, counted to 2
    aged,            \* jobs that ended longer ago than the sweep's cutoff
    sub_pc,          \* position of each worker around _download_subtitle
    attempt,         \* the loop variable `attempt` of _download_subtitle
    slept,           \* the seconds of each time.sleep of _download_subtitle
    job_dir,         \* whether the job directory holds a subtitle file
    sub_found,       \* `sub_file` of run_download after the acquisition
    tries,           \* calls of the extraction service for subtitles
    scans,           \* calls of _find_subtitle by run_download itself
    base_pc,         \* position of each worker in the try of run_download
    exc,             \* the exception `e` a worker is handling, its message
    base_calls,      \* the format of each call of _do_download
    failures,        \* the message of each call of _do_download that raised
    partial,         \* whether the job directory holds files
    burn_pc,         \* position of each worker in the burn-in step
    simple_sub,      \* whether burn_sub.srt is in the job directory
    duration_us,     \* local `duration_us` of the burn-in, 0 or positive
    burn_end,        \* how _burn_subtitle_with_progress ended
    fetched,         \* the latest request of an artifact and its answer
    made,            \* the job ids make_job was called with
    table_call,      \* the latest call of a function of the job table
    previous         \* what the call of _fix_srt_overlaps before this one wrote

\* the scheduler and the workers
download_vars ==
    <<MAX_CONCURRENT_DOWNLOADS, jobs, download_sem, sem_waiters,
      pending_jobs, pending_lock, pc, args, pos, loop_i, hooks, files,
      sub_file>>

\* the credential pool
pool_vars ==
    <<cookie_files, pool_idx, pool_lock, cpc, kind, pool, idx, cookiefile,
      served>>

\* the read endpoints
api_vars == <<response>>

\* the overlap repair of a subtitle file
fix_vars == <<srt_file, fix_pc, entries, fixed, prev_end_ms, entry_i>>

\* the translation of a subtitle file
translate_vars ==
    <<tr_pc, matches, texts, translated, start, block_i, service_log>>

\* the subtitle text processing
text_vars == <<fix_vars, translate_vars>>

\* the locks and the threads that take them
lock_vars == <<held, lpc, waiting>>

\* the progress streams
stream_vars == <<stream_pc, stream_job, deadline, last_event, terminal_events>>

\* the age of the jobs
sweep_vars == <<aged>>

\* the locks, the streams and the ages
view_vars == <<lock_vars, stream_vars, sweep_vars>>

\* the subtitle acquisition of a worker
subtitle_vars == <<sub_pc, attempt, slept, job_dir, sub_found, tries, scans>>

\* the stages of run_download taken one at a time
\* the base download of a worker
base_vars == <<base_pc, exc, base_calls, failures, partial>>

\* the burn-in of a worker
burn_vars == <<burn_pc, simple_sub, duration_us, burn_end>>

\* the requests of artifacts
fetch_vars == <<fetched>>

\* the callers of the job table
table_vars == <<made, table_call>>

\* the callers of _fix_srt_overlaps
twice_vars == <<previous>>

stage_vars ==
    <<subtitle_vars, base_vars, burn_vars, fetch_vars, table_vars, twice_vars>>

\* what a step of a download, of a credential thread, of a read endpoint
\* leaves alone
other_vars == <<pool_vars, api_vars, text_vars, stage_vars, view_vars>>
beside_pool == <<download_vars, api_vars, text_vars, stage_vars, view_vars>>
beside_api == <<download_vars, pool_vars, text_vars, stage_vars, view_vars>>
beside_text == <<download_vars, pool_vars, api_vars, stage_vars, view_vars>>

vars == <<download_vars, pool_vars, api_vars, text_vars, stage_vars, view_vars>>

NoThread == 0
None == "None"

Terminal == {"done", "error"}

\* user_id of a record made without one (the default "" of make_job)
NoUser == 0
NoArgs == [quality |-> None, burn_subtitle |-> FALSE, uid |-> NoUser]
NoResponse == [endpoint |-> None, uid |-> NoUser, code |-> 0, owners |-> {}]
NoFiles == [original |-> "absent", burned |-> "absent"]
\* a local variable outside its lifetime
Unbound == "unbound"

\* ------------------------------------------------------------- job table

\* the record make_job stores
NewJob(user_id) ==
    [status |-> "pending", progress |-> 0, queue_pos |-> 0,
     original_filepath |-> None, burned_filepath |-> None,
     burn_error |-> None, error |-> None, user_id |-> user_id,
     completed_at |-> None]

\* update_job as it would be if it wrote the record of a job that is not
\* in the table
update_job_recreates(J, job_id, kwargs) ==
    IF job_id \in DOMAIN J
    THEN [J EXCEPT ![job_id] = kwargs @@ @]
    ELSE (job_id :> (kwargs @@ NewJob(NoUser))) @@ J

update_job(J, job_id, kwargs) ==
    IF job_id \in DOMAIN J
    THEN [J EXCEPT ![job_id] = kwargs @@ @]
    ELSE J

\* ------------------------------------------------------------------ init

\* the scheduler at start, no request received yet
download_init ==
    /\ MAX_CONCURRENT_DOWNLOADS \in 1..MaxCapacity
    /\ jobs = << >>
    /\ download_sem = MAX_CONCURRENT_DOWNLOADS
    /\ sem_waiters = << >>
    /\ pending_jobs = << >>
    /\ pending_lock = NoThread
    /\ pc = [j \in JobIds |-> "idle"]
    /\ args = [j \in JobIds |-> NoArgs]
    /\ pos = [j \in JobIds |-> 0]
    /\ loop_i = [j \in JobIds |-> 0]
    /\ hooks = [j \in JobIds |-> 0]
    /\ files = [j \in JobIds |-> NoFiles]
    /\ sub_file = [j \in JobIds |-> Unbound]

\* the credential threads at start
pool_init ==
    /\ pool_idx = 0
    /\ pool_lock = NoThread
    /\ cpc = [t \in Callers |-> "idle"]
    /\ kind = [t \in Callers |-> None]
    /\ pool = [t \in Callers |-> Unbound]
    /\ idx = [t \in Callers |-> Unbound]
    /\ cookiefile = [t \in Callers |-> Unbound]
    /\ served = << >>

\* no subtitle is being repaired
fix_init ==
    /\ fix_pc = "idle"
    /\ entries = Unbound
    /\ fixed = Unbound
    /\ prev_end_ms = Unbound
    /\ entry_i = Unbound

\* no subtitle is being translated
\* the locks free, no thread started, no stream open, no job aged
view_init ==
    /\ held = [l \in {"jobs_lock", "_pending_lock", "_pool_lock"} |-> NoThread]
    /\ lpc = [t \in 1..NumThreads |-> 1]
    /\ waiting = [t \in 1..NumThreads |-> None]
    /\ stream_pc = [s \in 1..NumStreams |-> "closed"]
    /\ stream_job = [s \in 1..NumStreams |-> Unbound]
    /\ deadline = [s \in 1..NumStreams |-> Unbound]
    /\ last_event = [s \in 1..NumStreams |-> None]
    /\ terminal_events = [s \in 1..NumStreams |-> 0]
    /\ aged = {}
    /\ sub_pc = [t \in 1..NumThreads |-> "update_original"]
    /\ attempt = [t \in 1..NumThreads |-> Unbound]
    /\ slept = [t \in 1..NumThreads |-> << >>]
    /\ job_dir = [t \in 1..NumThreads |-> FALSE]
    /\ sub_found = [t \in 1..NumThreads |-> Unbound]
    /\ tries = [t \in 1..NumThreads |-> 0]
    /\ scans = [t \in 1..NumThreads |-> 0]
    /\ base_pc = [t \in 1..NumThreads |-> "make_job"]
    /\ exc = [t \in 1..NumThreads |-> None]
    /\ base_calls = [t \in 1..NumThreads |-> << >>]
    /\ failures = [t \in 1..NumThreads |-> << >>]
    /\ partial = [t \in 1..NumThreads |-> FALSE]
    /\ burn_pc = [t \in 1..NumThreads |-> "copy"]
    /\ simple_sub = [t \in 1..NumThreads |-> FALSE]
    /\ duration_us = [t \in 1..NumThreads |-> Unbound]
    /\ burn_end = [t \in 1..NumThreads |-> None]
    /\ fetched = [job |-> 0, file_type |-> None, code |-> 0]
    /\ made = {}
    /\ table_call = [op |-> None, job |-> 0]
    /\ previous = [called |-> FALSE, fixed |-> << >>]

translate_init ==
    /\ tr_pc = "idle"
    /\ matches = Unbound
    /\ texts = Unbound
    /\ translated = Unbound
    /\ start = Unbound
    /\ block_i = Unbound
    /\ service_log = << >>

\* a service started with an empty credential directory
Init ==
    /\ download_init
    /\ cookie_files = {}
    /\ pool_init
    /\ response = NoResponse
    /\ srt_file = << >>
    /\ fix_init
    /\ translate_init
    /\ view_init

\* ------------------------------------------------------------ the sweep

\* a recorded artifact of a terminal job whose file exists and is older
\* than the cutoff (p.exists() and p.stat().st_mtime < cutoff)
OldArtifacts(j) ==
    {k \in {"original", "burned"} :
        /\ j \in DOMAIN jobs
        /\ jobs[j].status \in Terminal
        /\ (IF k = "original" THEN jobs[j].original_filepath
                              ELSE jobs[j].burned_filepath) # None
        /\ files[j][k] = "old"}

to_delete == {j \in DOMAIN jobs : OldArtifacts(j) # {}}

clean_old_jobs ==
    /\ jobs' = [j \in DOMAIN jobs \ to_delete |-> jobs[j]]
    /\ files' = [j \in JobIds |->
                    [k \in {"original", "burned"} |->
                        IF k \in OldArtifacts(j) THEN "absent" ELSE files[j][k]]]

\* time goes by: the mtime of every file written so far falls behind the
\* cutoff `time.time() - 3600` of the next sweep.  Only the files of terminal
\* jobs are ever compared with the cutoff, so time is let go by only when
\* that changes what a sweep would see.
time_passes ==
    /\ \E j \in DOMAIN jobs, k \in {"original", "burned"} :
           jobs[j].status \in Terminal /\ files[j][k] = "fresh"
    /\ files' = [j \in JobIds |->
                    [k \in {"original", "burned"} |->
                        IF files[j][k] = "fresh" THEN "old" ELSE files[j][k]]]
    /\ UNCHANGED <<MAX_CONCURRENT_DOWNLOADS, jobs, download_sem, sem_waiters,
                   pending_jobs, pending_lock, pc, args, pos, loop_i, hooks,
                   sub_file, other_vars>>

\* ---------------------------------------------------------- api_download

\* the request of the user g.uid is parsed and the sweep runs
api_download(j, quality, burn_subtitle, uid) ==
    /\ pc[j] = "idle"
    /\ \A k \in JobIds : k < j => pc[k] # "idle"
    /\ (burn_subtitle \/ quality # "best") => j \in RichJobs
    /\ args' = [args EXCEPT ![j] =
                   [quality |-> quality, burn_subtitle |-> burn_subtitle,
                    uid |-> uid]]
    /\ clean_old_jobs
    /\ pc' = [pc EXCEPT ![j] = "make_job"]
    /\ UNCHANGED <<MAX_CONCURRENT_DOWNLOADS, download_sem, sem_waiters,
                   pending_jobs, pending_lock, pos, loop_i, hooks,
                   sub_file, other_vars>>

make_job(j) ==
    /\ pc[j] = "make_job"
    /\ jobs' = (j :> NewJob(args[j].uid)) @@ jobs
    /\ pc' = [pc EXCEPT ![j] = "submit"]
    /\ UNCHANGED <<MAX_CONCURRENT_DOWNLOADS, download_sem, sem_waiters,
                   pending_jobs, pending_lock, args, pos, loop_i, hooks, files,
                   sub_file, other_vars>>

\* submit_download, the section under _pending_lock
submit_append(j) ==
    /\ pc[j] = "submit"
    /\ pending_lock = NoThread
    /\ pending_jobs' = Append(pending_jobs, j)
    /\ pos' = [pos EXCEPT ![j] = Len(pending_jobs) + 1]
    /\ pc' = [pc EXCEPT ![j] = "submit_pos"]
    /\ UNCHANGED <<MAX_CONCURRENT_DOWNLOADS, jobs, download_sem, sem_waiters,
                   pending_lock, args, loop_i, hooks, files,
                   sub_file, other_vars>>

\* submit_download, after the lock: the queue_pos write and the thread start
submit_download(j) ==
    /\ pc[j] = "submit_pos"
    /\ jobs' = update_job(jobs, j, [queue_pos |-> pos[j]])
    /\ pos' = [pos EXCEPT ![j] = 0]
    /\ pc' = [pc EXCEPT ![j] = "acquire"]
    /\ UNCHANGED <<MAX_CONCURRENT_DOWNLOADS, download_sem, sem_waiters,
                   pending_jobs, pending_lock, args, loop_i, hooks, files,
                   sub_file, other_vars>>

\* ------------------------------------------------------ _worker: admission

\* the admission attempt of a worker that already gives up with one slot left
worker_try_acquire_refuses_early(j) ==
    /\ pc[j] = "acquire"
    /\ IF download_sem > 1
       THEN /\ download_sem' = download_sem - 1
            /\ pc' = [pc EXCEPT ![j] = "admitted"]
       ELSE /\ download_sem' = download_sem
            /\ pc' = [pc EXCEPT ![j] = "mark_queued"]
    /\ UNCHANGED <<MAX_CONCURRENT_DOWNLOADS, jobs, sem_waiters, pending_jobs,
                   pending_lock, args, pos, loop_i, hooks, files,
                   sub_file, other_vars>>

\* _download_sem.acquire(blocking=False)
worker_try_acquire(j) ==
    /\ pc[j] = "acquire"
    /\ IF download_sem > 0
       THEN /\ download_sem' = download_sem - 1
            /\ pc' = [pc EXCEPT ![j] = "admitted"]
       ELSE /\ download_sem' = download_sem
            /\ pc' = [pc EXCEPT ![j] = "mark_queued"]
    /\ UNCHANGED <<MAX_CONCURRENT_DOWNLOADS, jobs, sem_waiters, pending_jobs,
                   pending_lock, args, pos, loop_i, hooks, files,
                   sub_file, other_vars>>

worker_mark_queued(j) ==
    /\ pc[j] = "mark_queued"
    /\ jobs' = update_job(jobs, j, [status |-> "queued"])
    /\ pc' = [pc EXCEPT ![j] = "blocking_acquire"]
    /\ UNCHANGED <<MAX_CONCURRENT_DOWNLOADS, download_sem, sem_waiters,
                   pending_jobs, pending_lock, args, pos, loop_i, hooks, files,
                   sub_file, other_vars>>

\* _download_sem.acquire(): one pass of its loop, on entry and after each
\* wake-up; a thread that finds the value 0 goes (back) to sleep at the end
\* of the waiters
worker_blocking_acquire(j) ==
    /\ pc[j] = "blocking_acquire"
    /\ IF download_sem > 0
       THEN /\ download_sem' = download_sem - 1
            /\ sem_waiters' = sem_waiters
            /\ pc' = [pc EXCEPT ![j] = "admitted"]
       ELSE /\ download_sem' = download_sem
            /\ sem_waiters' = Append(sem_waiters, j)
            /\ pc' = [pc EXCEPT ![j] = "waiting"]
    /\ UNCHANGED <<MAX_CONCURRENT_DOWNLOADS, jobs, pending_jobs, pending_lock,
                   args, pos, loop_i, hooks, files,
                   sub_file, other_vars>>

Remove(s, x) == SelectSeq(s, LAMBDA e : e # x)

\* with _pending_lock: the removal from the wait list
worker_dequeue(j) ==
    /\ pc[j] = "admitted"
    /\ pending_lock = NoThread
    /\ pending_jobs' = Remove(pending_jobs, j)
    /\ IF pending_jobs' = << >>
       THEN /\ pending_lock' = NoThread
            /\ loop_i' = loop_i
            /\ pc' = [pc EXCEPT ![j] = "mkdir"]
       ELSE /\ pending_lock' = j
            /\ loop_i' = [loop_i EXCEPT ![j] = 1]
            /\ pc' = [pc EXCEPT ![j] = "recount"]
    /\ UNCHANGED <<MAX_CONCURRENT_DOWNLOADS, jobs, download_sem, sem_waiters,
                   args, pos, hooks, files,
                   sub_file, other_vars>>

\* one round of `for i, jid in enumerate(_pending_jobs)`; the lock is
\* released after the last round
worker_recount(j) ==
    /\ pc[j] = "recount"
    /\ pending_lock = j
    /\ jobs' = update_job(jobs, pending_jobs[loop_i[j]], [queue_pos |-> loop_i[j]])
    /\ IF loop_i[j] < Len(pending_jobs)
       THEN /\ loop_i' = [loop_i EXCEPT ![j] = @ + 1]
            /\ UNCHANGED <<pending_lock, pc>>
       ELSE /\ loop_i' = [loop_i EXCEPT ![j] = 0]
            /\ pending_lock' = NoThread
            /\ pc' = [pc EXCEPT ![j] = "mkdir"]
    /\ UNCHANGED <<MAX_CONCURRENT_DOWNLOADS, download_sem, sem_waiters,
                   pending_jobs, args, pos, hooks, files,
                   sub_file, other_vars>>

\* _download_sem.release() in the finally clause: the value goes up and the
\* first sleeping thread is woken to retry
worker_release(j) ==
    /\ pc[j] = "release"
    /\ download_sem' = download_sem + 1
    /\ IF sem_waiters # << >>
       THEN /\ sem_waiters' = Tail(sem_waiters)
            /\ pc' = [pc EXCEPT ![j] = "finished",
                                ![Head(sem_waiters)] = "blocking_acquire"]
       ELSE /\ sem_waiters' = sem_waiters
            /\ pc' = [pc EXCEPT ![j] = "finished"]
    /\ args' = [args EXCEPT ![j] = NoArgs]
    /\ sub_file' = [sub_file EXCEPT ![j] = Unbound]
    /\ UNCHANGED <<MAX_CONCURRENT_DOWNLOADS, jobs, pending_jobs, pending_lock,
                   pos, loop_i, hooks, files, other_vars>>

\* ----------------------------------------------------------- run_download

\* burn_requested as it would be without the override for audio
burn_requested_for_audio(j) == args[j].burn_subtitle

\* burn_subtitle after `if is_audio: burn_subtitle = False`
burn_requested(j) == args[j].burn_subtitle /\ args[j].quality # "audio"

\* a collaborator (file system, extraction service, transcoding tool) of
\* job j fails or not
collaborator(j, failed) == failed => j \in RichJobs

\* record_error as it would be if the handler rolled the recorded artifact
\* back
record_error_rolls_back(j) ==
    /\ jobs' = update_job(jobs, j,
                   [status |-> "error", error |-> "message", completed_at |-> "time",
                    original_filepath |-> None])
    /\ pc' = [pc EXCEPT ![j] = "release"]

\* the handler as it would be if it wrote the status and the message and
\* left completed_at to a later update
record_error_without_time(j) ==
    /\ jobs' = update_job(jobs, j, [status |-> "error", error |-> "message"])
    /\ pc' = [pc EXCEPT ![j] = "release"]

\* the handler `except Exception as e` that closes run_download
record_error(j) ==
    /\ jobs' = update_job(jobs, j,
                   [status |-> "error", error |-> "message", completed_at |-> "time"])
    /\ pc' = [pc EXCEPT ![j] = "release"]

\* run_mkdir as it would be with the release outside a finally clause: the
\* exception ends the worker with its slot still taken
run_mkdir_without_finally(j, ok) ==
    /\ pc[j] = "mkdir"
    /\ collaborator(j, ~ok)
    /\ pc' = [pc EXCEPT ![j] = IF ok THEN "download" ELSE "finished"]
    /\ UNCHANGED <<MAX_CONCURRENT_DOWNLOADS, jobs, download_sem, sem_waiters,
                   pending_jobs, pending_lock, args, pos, loop_i, hooks, files,
                   sub_file, other_vars>>

\* job_dir.mkdir(exist_ok=True), before the try block: an OSError leaves
\* run_download through the finally clause of _worker
run_mkdir(j, ok) ==
    /\ pc[j] = "mkdir"
    /\ collaborator(j, ~ok)
    /\ pc' = [pc EXCEPT ![j] = IF ok THEN "download" ELSE "release"]
    /\ UNCHANGED <<MAX_CONCURRENT_DOWNLOADS, jobs, download_sem, sem_waiters,
                   pending_jobs, pending_lock, args, pos, loop_i, hooks, files,
                   sub_file, other_vars>>

HookEvents ==
    [status : {"downloading"}, pct : Pcts] \cup [status : {"finished"}, pct : {0}]

\* one callback of the extraction service during either download attempt
progress_hook(j, d) ==
    /\ pc[j] \in {"download", "fallback"}
    /\ j \in RichJobs /\ hooks[j] < MaxHooks
    /\ hooks' = [hooks EXCEPT ![j] = @ + 1]
    /\ jobs' = IF d.status = "downloading"
               THEN update_job(jobs, j, [status |-> "downloading", progress |-> d.pct])
               ELSE update_job(jobs, j, [status |-> "merging", progress |-> 99])
    /\ UNCHANGED <<MAX_CONCURRENT_DOWNLOADS, download_sem, sem_waiters,
                   pending_jobs, pending_lock, pc, args, pos, loop_i, files,
                   sub_file, other_vars>>

\* the first _do_download(ydl_opts) ends
first_download(j, outcome) ==
    /\ pc[j] = "download"
    /\ collaborator(j, outcome # "returned")
    /\ CASE outcome = "returned" ->
              /\ pc' = [pc EXCEPT ![j] = "find_output"]
              /\ jobs' = jobs
         [] outcome = "format_unavailable" ->
              /\ pc' = [pc EXCEPT ![j] = "fallback"]
              /\ jobs' = update_job(jobs, j, [status |-> "downloading", progress |-> 0])
         [] OTHER -> record_error(j)
    /\ hooks' = [hooks EXCEPT ![j] = 0]
    /\ UNCHANGED <<MAX_CONCURRENT_DOWNLOADS, download_sem, sem_waiters,
                   pending_jobs, pending_lock, args, pos, loop_i, files,
                   sub_file, other_vars>>

\* the retry _do_download(fallback_opts) ends
fallback_download(j, outcome) ==
    /\ pc[j] = "fallback"
    /\ collaborator(j, outcome # "returned")
    /\ IF outcome = "returned"
       THEN /\ pc' = [pc EXCEPT ![j] = "find_output"]
            /\ jobs' = jobs
       ELSE record_error(j)
    /\ hooks' = [hooks EXCEPT ![j] = 0]
    /\ UNCHANGED <<MAX_CONCURRENT_DOWNLOADS, download_sem, sem_waiters,
                   pending_jobs, pending_lock, args, pos, loop_i, files,
                   sub_file, other_vars>>

\* find_output as it would be if the missing file were recorded as an error
\* without leaving run_download: the closing update then follows
find_output_falls_through(j, found) ==
    /\ pc[j] = "find_output"
    /\ collaborator(j, ~found)
    /\ IF found
       THEN /\ jobs' = update_job(jobs, j, [original_filepath |-> "video.mp4"])
            /\ files' = [files EXCEPT ![j].original = "fresh"]
            /\ pc' = [pc EXCEPT ![j] =
                         IF burn_requested(j) THEN "subtitle" ELSE "finalize"]
       ELSE /\ jobs' = update_job(jobs, j,
                          [status |-> "error", error |-> "message",
                           completed_at |-> "time"])
            /\ pc' = [pc EXCEPT ![j] = "finalize"]
            /\ files' = files
    /\ UNCHANGED <<MAX_CONCURRENT_DOWNLOADS, download_sem, sem_waiters,
                   pending_jobs, pending_lock, args, pos, loop_i, hooks,
                   sub_file, other_vars>>

\* find_output as it would be if the original artifact were recorded only on
\* the way to the subtitle flow
find_output_unrecorded(j, found) ==
    /\ pc[j] = "find_output"
    /\ collaborator(j, ~found)
    /\ IF found
       THEN /\ jobs' = IF burn_requested(j)
                       THEN update_job(jobs, j, [original_filepath |-> "video.mp4"])
                       ELSE jobs
            /\ files' = [files EXCEPT ![j].original = "fresh"]
            /\ pc' = [pc EXCEPT ![j] =
                         IF burn_requested(j) THEN "subtitle" ELSE "finalize"]
       ELSE /\ record_error(j)
            /\ files' = files
    /\ UNCHANGED <<MAX_CONCURRENT_DOWNLOADS, download_sem, sem_waiters,
                   pending_jobs, pending_lock, args, pos, loop_i, hooks,
                   sub_file, other_vars>>

\* the search of the job directory for the output file and the record of it
find_output(j, found) ==
    /\ pc[j] = "find_output"
    /\ collaborator(j, ~found)
    /\ IF found
       THEN /\ jobs' = update_job(jobs, j, [original_filepath |-> "video.mp4"])
            /\ files' = [files EXCEPT ![j].original = "fresh"]
            /\ pc' = [pc EXCEPT ![j] =
                         IF burn_requested(j) THEN "subtitle" ELSE "finalize"]
       ELSE /\ record_error(j)
            /\ files' = files
    /\ UNCHANGED <<MAX_CONCURRENT_DOWNLOADS, download_sem, sem_waiters,
                   pending_jobs, pending_lock, args, pos, loop_i, hooks,
                   sub_file, other_vars>>

SubtitleOutcomes == {"none", "chinese", "foreign", "raised"}

\* acquire_subtitle as it would be if the burn-in were started whether or
\* not a subtitle was found
acquire_subtitle_burns_anyway(j, sub) ==
    /\ pc[j] = "subtitle"
    /\ collaborator(j, sub = "raised")
    /\ CASE sub \in {"none", "chinese"} ->
              /\ pc' = [pc EXCEPT ![j] = "start_burn"]
              /\ jobs' = jobs
         [] sub = "foreign" ->
              /\ pc' = [pc EXCEPT ![j] = "translate"]
              /\ jobs' = update_job(jobs, j, [status |-> "translating", progress |-> 99])
         [] OTHER -> record_error(j)
    /\ sub_file' = [sub_file EXCEPT ![j] = IF sub = "raised" THEN @ ELSE sub]
    /\ UNCHANGED <<MAX_CONCURRENT_DOWNLOADS, download_sem, sem_waiters,
                   pending_jobs, pending_lock, args, pos, loop_i, hooks, files, other_vars>>

\* _download_subtitle, _find_subtitle and _convert_vtt_to_srt: no subtitle, a
\* subtitle tagged zh, any other subtitle, or an exception of the conversion
acquire_subtitle(j, sub) ==
    /\ pc[j] = "subtitle"
    /\ collaborator(j, sub = "raised")
    /\ CASE sub = "none" ->
              /\ pc' = [pc EXCEPT ![j] = "finalize"]
              /\ jobs' = jobs
         [] sub = "chinese" ->
              /\ pc' = [pc EXCEPT ![j] = "start_burn"]
              /\ jobs' = jobs
         [] sub = "foreign" ->
              /\ pc' = [pc EXCEPT ![j] = "translate"]
              /\ jobs' = update_job(jobs, j, [status |-> "translating", progress |-> 99])
         [] OTHER -> record_error(j)
    /\ sub_file' = [sub_file EXCEPT ![j] = IF sub = "raised" THEN @ ELSE sub]
    /\ UNCHANGED <<MAX_CONCURRENT_DOWNLOADS, download_sem, sem_waiters,
                   pending_jobs, pending_lock, args, pos, loop_i, hooks, files, other_vars>>

\* _translate_srt_to_chinese returns, or raises while writing its output
translate_subtitle(j, ok) ==
    /\ pc[j] = "translate"
    /\ collaborator(j, ~ok)
    /\ IF ok
       THEN /\ pc' = [pc EXCEPT ![j] = "start_burn"]
            /\ jobs' = jobs
       ELSE record_error(j)
    /\ UNCHANGED <<MAX_CONCURRENT_DOWNLOADS, download_sem, sem_waiters,
                   pending_jobs, pending_lock, args, pos, loop_i, hooks, files,
                   sub_file, other_vars>>

start_burn(j) ==
    /\ pc[j] = "start_burn"
    /\ jobs' = update_job(jobs, j, [status |-> "burning", progress |-> 0])
    /\ pc' = [pc EXCEPT ![j] = "burning"]
    /\ UNCHANGED <<MAX_CONCURRENT_DOWNLOADS, download_sem, sem_waiters,
                   pending_jobs, pending_lock, args, pos, loop_i, hooks, files,
                   sub_file, other_vars>>

Min(a, b) == IF a < b THEN a ELSE b

\* one out_time_us line of the transcoding tool
burn_progress_cb(j, raw) ==
    /\ pc[j] = "burning"
    /\ j \in RichJobs /\ hooks[j] < MaxHooks
    /\ hooks' = [hooks EXCEPT ![j] = @ + 1]
    /\ jobs' = update_job(jobs, j, [status |-> "burning", progress |-> Min(99, raw)])
    /\ UNCHANGED <<MAX_CONCURRENT_DOWNLOADS, download_sem, sem_waiters,
                   pending_jobs, pending_lock, pc, args, pos, loop_i, files,
                   sub_file, other_vars>>

\* burn_subtitle as it would be without the handler `except Exception as
\* burn_err` swallowing the failure: the failure is noted and raised again
burn_subtitle_fatal(j, ok) ==
    /\ pc[j] = "burning"
    /\ collaborator(j, ~ok)
    /\ IF ok
       THEN /\ jobs' = update_job(jobs, j, [burned_filepath |-> "video_subbed.mp4"])
            /\ files' = [files EXCEPT ![j].burned = "fresh"]
            /\ pc' = [pc EXCEPT ![j] = "finalize"]
       ELSE /\ jobs' = update_job(jobs, j,
                          [burn_error |-> "message", status |-> "error",
                           error |-> "message", completed_at |-> "time"])
            /\ files' = files
            /\ pc' = [pc EXCEPT ![j] = "release"]
    /\ hooks' = [hooks EXCEPT ![j] = 0]
    /\ UNCHANGED <<MAX_CONCURRENT_DOWNLOADS, download_sem, sem_waiters,
                   pending_jobs, pending_lock, args, pos, loop_i, sub_file, other_vars>>

\* _burn_subtitle_with_progress returns or raises
burn_subtitle(j, ok) ==
    /\ pc[j] = "burning"
    /\ collaborator(j, ~ok)
    /\ IF ok
       THEN /\ jobs' = update_job(jobs, j, [burned_filepath |-> "video_subbed.mp4"])
            /\ files' = [files EXCEPT ![j].burned = "fresh"]
       ELSE /\ jobs' = update_job(jobs, j, [burn_error |-> "message"])
            /\ files' = files
    /\ pc' = [pc EXCEPT ![j] = "finalize"]
    /\ hooks' = [hooks EXCEPT ![j] = 0]
    /\ UNCHANGED <<MAX_CONCURRENT_DOWNLOADS, download_sem, sem_waiters,
                   pending_jobs, pending_lock, args, pos, loop_i,
                   sub_file, other_vars>>

\* the closing update of run_download
finalize(j) ==
    /\ pc[j] = "finalize"
    /\ jobs' = update_job(jobs, j,
                   [status |-> "done", progress |-> 100, completed_at |-> "time"])
    /\ pc' = [pc EXCEPT ![j] = "release"]
    /\ UNCHANGED <<MAX_CONCURRENT_DOWNLOADS, download_sem, sem_waiters,
                   pending_jobs, pending_lock, args, pos, loop_i, hooks, files,
                   sub_file, other_vars>>

\* ------------------------------------------------------------------ next

\* every request of Spec comes from one browser
FirstUser == CHOOSE u \in Users : \A v \in Users : u <= v

Next ==
    \/ \E j \in JobIds, q \in Qualities, b \in BOOLEAN :
           api_download(j, q, b, FirstUser)
    \/ \E j \in JobIds : make_job(j)
    \/ \E j \in JobIds : submit_append(j)
    \/ \E j \in JobIds : submit_download(j)
    \/ \E j \in JobIds : worker_try_acquire(j)
    \/ \E j \in JobIds : worker_mark_queued(j)
    \/ \E j \in JobIds : worker_blocking_acquire(j)
    \/ \E j \in JobIds : worker_dequeue(j)
    \/ \E j \in JobIds : worker_recount(j)
    \/ \E j \in JobIds : worker_release(j)
    \/ \E j \in JobIds, ok \in BOOLEAN : run_mkdir(j, ok)
    \/ \E j \in JobIds, d \in HookEvents : progress_hook(j, d)
    \/ \E j \in JobIds, o \in {"returned", "format_unavailable", "raised"} :
           first_download(j, o)
    \/ \E j \in JobIds, o \in {"returned", "raised"} : fallback_download(j, o)
    \/ \E j \in JobIds, found \in BOOLEAN : find_output(j, found)
    \/ \E j \in JobIds, sub \in SubtitleOutcomes : acquire_subtitle(j, sub)
    \/ \E j \in JobIds, ok \in BOOLEAN : translate_subtitle(j, ok)
    \/ \E j \in JobIds : start_burn(j)
    \/ \E j \in JobIds, raw \in BurnRaw : burn_progress_cb(j, raw)
    \/ \E j \in JobIds, ok \in BOOLEAN : burn_subtitle(j, ok)
    \/ \E j \in JobIds : finalize(j)
    \/ time_passes

Spec == Init /\ [][Next]_vars

\* ------------------------------------------------------- credential pool

RECURSIVE sorted(_)
sorted(S) ==
    IF S = {} THEN << >>
    ELSE LET m == CHOOSE x \in S : \A y \in S : x <= y
         IN  <<m>> \o sorted(S \ {m})

get_cookie_pool == sorted(cookie_files)

\* the calls of get_next_cookie under way or done
calls == Len(served) + Cardinality({t \in Callers : cpc[t] \in {"get_pool", "lock"}})

\* a thread of run_download, _download_subtitle or api_info starts
\* _get_base_opts
get_base_opts(t) ==
    /\ cpc[t] = "idle"
    /\ calls < MaxCalls
    /\ kind' = [kind EXCEPT ![t] = "download"]
    /\ cpc' = [cpc EXCEPT ![t] = "get_pool"]
    /\ cookiefile' = [cookiefile EXCEPT ![t] = Unbound]
    /\ UNCHANGED <<beside_pool, cookie_files, pool_idx, pool_lock, pool, idx,
                   served>>

\* POST /api/cookies/check up to its call of _get_base_opts; with an empty
\* pool it answers at once
api_cookies_check(t) ==
    /\ cpc[t] = "idle"
    /\ calls < MaxCalls
    /\ IF get_cookie_pool = << >>
       THEN UNCHANGED <<kind, cpc>>
       ELSE /\ kind' = [kind EXCEPT ![t] = "check"]
            /\ cpc' = [cpc EXCEPT ![t] = "get_pool"]
    /\ cookiefile' = [cookiefile EXCEPT ![t] = Unbound]
    /\ UNCHANGED <<beside_pool, cookie_files, pool_idx, pool_lock, pool, idx,
                   served>>

\* get_next_cookie: `pool = get_cookie_pool()` and the test `if not pool`
get_next_cookie(t) ==
    /\ cpc[t] = "get_pool"
    /\ pool' = [pool EXCEPT ![t] = get_cookie_pool]
    /\ cpc' = [cpc EXCEPT ![t] = IF get_cookie_pool = << >> THEN "return" ELSE "lock"]
    /\ UNCHANGED <<beside_pool, cookie_files, pool_idx, pool_lock, kind, idx,
                   cookiefile, served>>

\* get_next_cookie_lock as it would be without _pool_lock
get_next_cookie_unlocked(t) ==
    /\ cpc[t] = "lock"
    /\ pool_lock' = t
    /\ idx' = [idx EXCEPT ![t] = pool_idx % Len(pool[t])]
    /\ served' = Append(served,
                     [cursor |-> pool_idx, cookie |-> pool[t][(pool_idx % Len(pool[t])) + 1]])
    /\ cpc' = [cpc EXCEPT ![t] = "unlock"]
    /\ UNCHANGED <<beside_pool, cookie_files, pool_idx, kind, pool,
                   cookiefile>>

\* `with _pool_lock:` is entered and `idx = _pool_idx % len(pool)` runs
get_next_cookie_lock(t) ==
    /\ cpc[t] = "lock"
    /\ pool_lock = NoThread
    /\ pool_lock' = t
    /\ idx' = [idx EXCEPT ![t] = pool_idx % Len(pool[t])]
    /\ served' = Append(served,
                     [cursor |-> pool_idx, cookie |-> pool[t][(pool_idx % Len(pool[t])) + 1]])
    /\ cpc' = [cpc EXCEPT ![t] = "unlock"]
    /\ UNCHANGED <<beside_pool, cookie_files, pool_idx, kind, pool,
                   cookiefile>>

\* `_pool_idx = idx + 1` runs and the lock is left
get_next_cookie_unlock(t) ==
    /\ cpc[t] = "unlock"
    /\ pool_idx' = idx[t] + 1
    /\ pool_lock' = NoThread
    /\ cpc' = [cpc EXCEPT ![t] = "return"]
    /\ UNCHANGED <<beside_pool, cookie_files, kind, pool, idx, cookiefile,
                   served>>

\* `return pool[idx]`, the cookiefile option of _get_base_opts and, in
\* api_cookies_check, its replacement by pool[0]
get_base_opts_return(t) ==
    /\ cpc[t] = "return"
    /\ cookiefile' = [cookiefile EXCEPT ![t] =
                         IF pool[t] = << >> THEN None
                         ELSE IF kind[t] = "check" THEN get_cookie_pool[1]
                         ELSE pool[t][idx[t] + 1]]
    /\ pool' = [pool EXCEPT ![t] = Unbound]
    /\ idx' = [idx EXCEPT ![t] = Unbound]
    /\ kind' = [kind EXCEPT ![t] = None]
    /\ cpc' = [cpc EXCEPT ![t] = "idle"]
    /\ UNCHANGED <<beside_pool, cookie_files, pool_idx, pool_lock, served>>

\* a service whose credential directory holds a fixed, non-empty pool
PoolInit ==
    /\ download_init
    /\ cookie_files \in (SUBSET CookieIds) \ {{}}
    /\ pool_init
    /\ response = NoResponse
    /\ srt_file = << >>
    /\ fix_init
    /\ translate_init
    /\ view_init

PoolNext ==
    \/ \E t \in Callers : get_base_opts(t)
    \/ \E t \in Callers : api_cookies_check(t)
    \/ \E t \in Callers : get_next_cookie(t)
    \/ \E t \in Callers : get_next_cookie_lock(t)
    \/ \E t \in Callers : get_next_cookie_unlock(t)
    \/ \E t \in Callers : get_base_opts_return(t)

PoolSpec == PoolInit /\ [][PoolNext]_vars

\* --------------------------------------------------------- read endpoints

\* the jobs that ApiSpec lets be submitted
ApiJobs == 1..MaxApiJobs

get_job(j) == IF j \in DOMAIN jobs THEN jobs[j] ELSE << >>

\* an answer to the user uid that carries the records or artifacts of the
\* jobs in shown
Answer(endpoint, uid, code, shown) ==
    [endpoint |-> endpoint, uid |-> uid, code |-> code,
     owners |-> {jobs[j].user_id : j \in shown}]

\* GET /api/job/<job_id>
api_job(uid, j) ==
    /\ response' =
          IF get_job(j) = << >> THEN Answer("api_job", uid, 404, {})
          ELSE IF jobs[j].user_id # NoUser /\ jobs[j].user_id # uid
               THEN Answer("api_job", uid, 403, {})
               ELSE Answer("api_job", uid, 200, {j})
    /\ UNCHANGED beside_api

\* GET /api/progress/<job_id>: one round of the loop of generate(), which
\* sends the record, or the notice that the job is gone
api_progress(uid, j) ==
    /\ response' =
          IF get_job(j) = << >> THEN Answer("api_progress", uid, 200, {})
          ELSE Answer("api_progress", uid, 200, {j})
    /\ UNCHANGED beside_api

\* GET /api/file/<job_id>/<file_type>
_serve_job_file(j, file_type) ==
    IF get_job(j) = << >> \/ get_job(j).status # "done"
    THEN 404
    ELSE LET filepath == IF file_type = "burned"
                         THEN jobs[j].burned_filepath
                         ELSE jobs[j].original_filepath
             kept == IF file_type = "burned" THEN files[j].burned
                                             ELSE files[j].original
         IN  IF filepath = None \/ kept = "absent" THEN 404 ELSE 200

\* the answer of a route to a file, to a caller uid
serve_job_file(uid, j, file_type) ==
    /\ response' =
          Answer("serve_job_file", uid, _serve_job_file(j, file_type),
                 IF _serve_job_file(j, file_type) = 200 THEN {j} ELSE {})
    /\ UNCHANGED beside_api

\* GET /api/history
api_history(uid) ==
    /\ response' = Answer("api_history", uid, 200,
                       {j \in DOMAIN jobs :
                           jobs[j].status \in Terminal /\ jobs[j].user_id = uid})
    /\ UNCHANGED beside_api

\* GET /api/jobs/active
api_jobs_active(uid) ==
    /\ response' = Answer("api_jobs_active", uid, 200,
                       {j \in DOMAIN jobs :
                           jobs[j].status \notin Terminal /\ jobs[j].user_id = uid})
    /\ UNCHANGED beside_api

\* the downloads of Spec, submitted by any of the users, and the read
\* endpoints called by any user for any job id; the k-th request comes from
\* one of the first k users
ApiNext ==
    \/ \E j \in ApiJobs, q \in Qualities, b \in BOOLEAN, u \in Users :
           u <= j /\ api_download(j, q, b, u)
    \/ \E j \in JobIds : make_job(j)
    \/ \E j \in JobIds : submit_append(j)
    \/ \E j \in JobIds : submit_download(j)
    \/ \E j \in JobIds : worker_try_acquire(j)
    \/ \E j \in JobIds : worker_mark_queued(j)
    \/ \E j \in JobIds : worker_blocking_acquire(j)
    \/ \E j \in JobIds : worker_dequeue(j)
    \/ \E j \in JobIds : worker_recount(j)
    \/ \E j \in JobIds : worker_release(j)
    \/ \E j \in JobIds, ok \in BOOLEAN : run_mkdir(j, ok)
    \/ \E j \in JobIds, d \in HookEvents : progress_hook(j, d)
    \/ \E j \in JobIds, o \in {"returned", "format_unavailable", "raised"} :
           first_download(j, o)
    \/ \E j \in JobIds, o \in {"returned", "raised"} : fallback_download(j, o)
    \/ \E j \in JobIds, found \in BOOLEAN : find_output(j, found)
    \/ \E j \in JobIds, sub \in SubtitleOutcomes : acquire_subtitle(j, sub)
    \/ \E j \in JobIds, ok \in BOOLEAN : translate_subtitle(j, ok)
    \/ \E j \in JobIds : start_burn(j)
    \/ \E j \in JobIds, raw \in BurnRaw : burn_progress_cb(j, raw)
    \/ \E j \in JobIds, ok \in BOOLEAN : burn_subtitle(j, ok)
    \/ \E j \in JobIds : finalize(j)
    \/ time_passes
    \/ \E u \in Users, j \in ApiJobs : api_job(u, j)
    \/ \E u \in Users, j \in ApiJobs : api_progress(u, j)
    \/ \E u \in Users, j \in ApiJobs, ft \in {"original", "burned"} :
           serve_job_file(u, j, ft)
    \/ \E u \in Users : api_history(u)
    \/ \E u \in Users : api_jobs_active(u)

ApiSpec == Init /\ [][ApiNext]_vars

\* ------------------------------------------------- a never-ending workload

\* the thread of a finished worker is gone and its record is of no further
\* interest: the job id stands for a fresh uuid at its next use
next_request(j) ==
    /\ pc[j] = "finished"
    /\ pc' = [pc EXCEPT ![j] = "idle"]
    /\ jobs' = [k \in DOMAIN jobs \ {j} |-> jobs[k]]
    /\ files' = [files EXCEPT ![j] = NoFiles]
    /\ UNCHANGED <<MAX_CONCURRENT_DOWNLOADS, download_sem, sem_waiters,
                   pending_jobs, pending_lock, args, pos, loop_i, hooks,
                   sub_file, other_vars>>

\* one step of the request/worker thread of job j, once the request is in;
\* the download is a plain one that succeeds
thread_step(j) ==
    \/ make_job(j)
    \/ submit_append(j)
    \/ submit_download(j)
    \/ worker_try_acquire(j)
    \/ worker_mark_queued(j)
    \/ worker_blocking_acquire(j)
    \/ worker_dequeue(j)
    \/ worker_recount(j)
    \/ run_mkdir(j, TRUE)
    \/ first_download(j, "returned")
    \/ find_output(j, TRUE)
    \/ finalize(j)
    \/ worker_release(j)

\* plain downloads that all succeed, submitted without end
LiveNext ==
    \/ \E j \in JobIds : api_download(j, "best", FALSE, FirstUser)
    \/ \E j \in JobIds : next_request(j)
    \/ \E j \in JobIds : make_job(j)
    \/ \E j \in JobIds : submit_append(j)
    \/ \E j \in JobIds : submit_download(j)
    \/ \E j \in JobIds : worker_try_acquire(j)
    \/ \E j \in JobIds : worker_mark_queued(j)
    \/ \E j \in JobIds : worker_blocking_acquire(j)
    \/ \E j \in JobIds : worker_dequeue(j)
    \/ \E j \in JobIds : worker_recount(j)
    \/ \E j \in JobIds : run_mkdir(j, TRUE)
    \/ \E j \in JobIds : first_download(j, "returned")
    \/ \E j \in JobIds : find_output(j, TRUE)
    \/ \E j \in JobIds : finalize(j)
    \/ \E j \in JobIds : worker_release(j)

\* every thread that can take a step again and again does take one: a
\* running download ends, a lock that is free again and again is obtained.
\* Nothing obliges a user to send a request.
LiveSpec ==
    /\ Init
    /\ [][LiveNext]_vars
    /\ \A j \in JobIds : SF_vars(thread_step(j))

\* ---------------------------------------------------- _fix_srt_overlaps

\* a time stamp HH:MM:SS,mmm
Millis == {0, 40}
Stamps == [h : {0}, mn : {0}, s : 0..MaxSeconds, ms : Millis]
ZeroStamp == [h |-> 0, mn |-> 0, s |-> 0, ms |-> 0]

\* the lines of a subtitle file: a line `start --> end` or any other line
TimeLine(a, b) == [tc |-> TRUE, start |-> a, end |-> b, text |-> "-->"]
TextLine(x) == [tc |-> FALSE, start |-> ZeroStamp, end |-> ZeroStamp, text |-> x]

\* an entry is the sequence of its lines: a block has an index line, a time
\* line and text; the other entries are too short or have no time line
Block(a, b) == <<TextLine("1"), TimeLine(a, b), TextLine("x")>>
ShortEntry == <<TextLine("1"), TimeLine(ZeroStamp, ZeroStamp)>>
RawEntry == <<TextLine("x"), TextLine("x"), TextLine("x")>>

SeqsUpTo(S, n) == UNION {[1..k -> S] : k \in 0..n}

\* files of up to MaxEntries entries, every time line well-formed
SrtFiles ==
    SeqsUpTo({Block(a, b) : a, b \in Stamps} \cup {ShortEntry, RawEntry}, MaxEntries)

\* the pattern wants two digits for the hours: a stamp of 100 hours or more,
\* which _fmt writes with three, does not match and reads as 0
_ms(ts) ==
    IF ts.h > 99 THEN 0 ELSE (ts.h * 3600 + ts.mn * 60 + ts.s) * 1000 + ts.ms

_fmt(v) ==
    [h |-> v \div 3600000, mn |-> (v % 3600000) \div 60000,
     s |-> (v % 60000) \div 1000, ms |-> v % 1000]

\* the gap put after the end of the block before, and the duration given
\* to a block that the shift left without any
GAP_MS == 50
MIN_DURATION_MS == 1000

\* the file is read and split into entries
fix_read ==
    /\ fix_pc = "read"
    /\ entries' = srt_file
    /\ fixed' = << >>
    /\ prev_end_ms' = 0
    /\ entry_i' = 1
    /\ fix_pc' = "loop"
    /\ UNCHANGED <<beside_text, translate_vars, srt_file>>

\* the times of a block after the repair against the end of the block before
repaired(start_ms, end_ms, prev) ==
    IF start_ms < prev
    THEN IF prev + GAP_MS >= end_ms
         THEN [start |-> prev + GAP_MS, end |-> prev + GAP_MS + MIN_DURATION_MS]
         ELSE [start |-> prev + GAP_MS, end |-> end_ms]
    ELSE [start |-> start_ms, end |-> end_ms]

\* fix_entry as it would be without the extension of the end
fix_entry_without_extension ==
    /\ fix_pc = "loop"
    /\ entry_i <= Len(entries)
    /\ LET lines == entries[entry_i] IN
       IF Len(lines) < 3
       THEN UNCHANGED <<fixed, prev_end_ms>>
       ELSE IF ~ lines[2].tc
       THEN /\ fixed' = Append(fixed, lines)
            /\ prev_end_ms' = prev_end_ms
       ELSE LET start_ms == IF _ms(lines[2].start) < prev_end_ms
                            THEN prev_end_ms + GAP_MS
                            ELSE _ms(lines[2].start)
                end_ms == _ms(lines[2].end)
            IN  /\ prev_end_ms' = end_ms
                /\ fixed' = Append(fixed,
                       [lines EXCEPT ![2] = TimeLine(_fmt(start_ms), _fmt(end_ms))])
    /\ entry_i' = entry_i + 1
    /\ UNCHANGED <<beside_text, translate_vars, srt_file, fix_pc, entries>>

\* one round of `for entry in entries`
fix_entry ==
    /\ fix_pc = "loop"
    /\ entry_i <= Len(entries)
    /\ LET lines == entries[entry_i] IN
       IF Len(lines) < 3
       THEN UNCHANGED <<fixed, prev_end_ms>>
       ELSE IF ~ lines[2].tc
       THEN /\ fixed' = Append(fixed, lines)
            /\ prev_end_ms' = prev_end_ms
       ELSE LET r == repaired(_ms(lines[2].start), _ms(lines[2].end), prev_end_ms)
            IN  /\ prev_end_ms' = r.end
                /\ fixed' = Append(fixed,
                       [lines EXCEPT ![2] = TimeLine(_fmt(r.start), _fmt(r.end))])
    /\ entry_i' = entry_i + 1
    /\ UNCHANGED <<beside_text, translate_vars, srt_file, fix_pc, entries>>

\* the corrected file is written and the function returns
fix_write ==
    /\ fix_pc = "loop"
    /\ entry_i > Len(entries)
    /\ srt_file' = fixed
    /\ fix_pc' = "returned"
    /\ UNCHANGED <<beside_text, translate_vars, entries, fixed, prev_end_ms, entry_i>>

\* _fix_srt_overlaps is called on some subtitle file
FixInit ==
    /\ download_init
    /\ cookie_files = {}
    /\ pool_init
    /\ response = NoResponse
    /\ srt_file \in SrtFiles
    /\ fix_pc = "read"
    /\ entries = Unbound
    /\ fixed = Unbound
    /\ prev_end_ms = Unbound
    /\ entry_i = Unbound
    /\ translate_init
    /\ view_init

FixNext ==
    \/ fix_read
    \/ fix_entry
    \/ fix_write

FixSpec == FixInit /\ [][FixNext]_vars

\* the last stamp the pattern of a time line reads
LastStamp == [h |-> 99, mn |-> 59, s |-> 59, ms |-> 960]

\* stamps on the second or within the first second, and the last stamp
TwiceStamps == {ts \in Stamps : ts.ms = 0 \/ ts.s = 0} \cup {LastStamp}

\* a block whose text starts with an empty line: splitlines() also splits at
\* the separators other than \n (\x0b, \x0c, \x1c..\x1e, \x85, \u2028,
\* \u2029), which the pattern \n\s*\n of the entries does not split at
BlankLine == TextLine("")
GappedBlock(a, b) == <<TextLine("1"), TimeLine(a, b), BlankLine, TextLine("x")>>

TwiceFiles ==
    SeqsUpTo({Block(a, b) : a, b \in TwiceStamps}
                 \cup {GappedBlock(a, b) : a, b \in {ts \in Stamps : ts.ms = 0 /\ ts.s < 2}}
                 \cup {ShortEntry, RawEntry},
             MaxEntries)

\* the entries re.split(r"\n\s*\n") finds in the lines of a written entry,
\* which "\n" joins: a blank line ends an entry
RECURSIVE split_entry(_, _)
split_entry(lines, entry) ==
    IF lines = << >>
    THEN IF entry = << >> THEN << >> ELSE <<entry>>
    ELSE IF Head(lines) = BlankLine
         THEN (IF entry = << >> THEN << >> ELSE <<entry>>)
                  \o split_entry(Tail(lines), << >>)
         ELSE split_entry(Tail(lines), Append(entry, Head(lines)))

\* the entries of the file that "\n\n".join(fixed) wrote
RECURSIVE split_file(_)
split_file(file) ==
    IF file = << >> THEN << >>
    ELSE split_entry(Head(file), << >>) \o split_file(Tail(file))

\* _fix_srt_overlaps is called once more, on the file it wrote
fix_again ==
    /\ fix_pc = "returned"
    /\ ~previous.called
    /\ previous' = [called |-> TRUE, fixed |-> fixed]
    /\ srt_file' = split_file(srt_file)
    /\ fix_pc' = "read"
    /\ UNCHANGED <<download_vars, pool_vars, api_vars, translate_vars,
                   subtitle_vars, base_vars, burn_vars, fetch_vars, table_vars,
                   view_vars, entries, fixed, prev_end_ms, entry_i>>

FixTwiceInit ==
    /\ download_init
    /\ MAX_CONCURRENT_DOWNLOADS = MaxCapacity
    /\ cookie_files = {}
    /\ pool_init
    /\ response = NoResponse
    /\ srt_file \in TwiceFiles
    /\ fix_pc = "read"
    /\ entries = Unbound
    /\ fixed = Unbound
    /\ prev_end_ms = Unbound
    /\ entry_i = Unbound
    /\ translate_init
    /\ view_init

FixTwiceNext ==
    \/ fix_read
    \/ fix_entry
    \/ fix_write
    \/ fix_again

FixTwiceSpec == FixTwiceInit /\ [][FixTwiceNext]_vars

\* ------------------------------------------------- _translate_srt_to_chinese

\* Text is a sequence of characters: "x" a character of the source
\* language, "z" a character of a translation, "s" a space, "n" the line
\* feed and "m" the marker U+25C6.  "1", "2", ... are the index lines of the
\* blocks and "T1", "T2", ... stand for the text of their time lines.
SEPARATOR == <<"n", "m", "m", "m", "n">>

IsSpace(c) == c \in {"n", "s"}

\* str.strip()
strip(s) ==
    LET inked == {i \in DOMAIN s : ~ IsSpace(s[i])}
        lo == CHOOSE i \in inked : \A k \in inked : i <= k
        hi == CHOOSE i \in inked : \A k \in inked : i >= k
    IN  IF inked = {} THEN << >> ELSE SubSeq(s, lo, hi)

\* sep.join(parts)
RECURSIVE join(_, _)
join(parts, sep) ==
    IF parts = << >> THEN << >>
    ELSE IF Len(parts) = 1 THEN parts[1]
    ELSE parts[1] \o sep \o join(Tail(parts), sep)

\* the first position at or after i where the character of s is, or is not,
\* a member of cs; Len(s) + 1 when there is none
first_in(s, i, cs) ==
    LET hits == {k \in i..Len(s) : s[k] \in cs}
    IN  IF hits = {} THEN Len(s) + 1 ELSE CHOOSE k \in hits : \A h \in hits : k <= h
first_out(s, i, cs) ==
    LET hits == {k \in i..Len(s) : s[k] \notin cs}
    IN  IF hits = {} THEN Len(s) + 1 ELSE CHOOSE k \in hits : \A h \in hits : k <= h

\* re.split(r"◆+", s)
RECURSIVE split_marks(_)
split_marks(s) ==
    LET i == first_in(s, 1, {"m"})
        j == first_out(s, i, {"m"})
    IN  IF i > Len(s) THEN <<s>>
        ELSE <<SubSeq(s, 1, i - 1)>> \o split_marks(SubSeq(s, j, Len(s)))

\* the last line feed of the white space that starts at position i
last_feed(s, i) ==
    LET feeds == {k \in i..(first_out(s, i, {"n", "s"}) - 1) : s[k] = "n"}
    IN  CHOOSE k \in feeds : \A h \in feeds : k >= h

\* the first position where a line feed, white space and a line feed follow
first_blank(s) ==
    LET hits == {k \in 1..Len(s) : s[k] = "n" /\ last_feed(s, k) > k}
    IN  IF hits = {} THEN Len(s) + 1 ELSE CHOOSE k \in hits : \A h \in hits : k <= h

\* re.split(r"\n\s*\n", s)
RECURSIVE split_blank(_)
split_blank(s) ==
    LET i == first_blank(s)
    IN  IF i > Len(s) THEN <<s>>
        ELSE <<SubSeq(s, 1, i - 1)>>
                 \o split_blank(SubSeq(s, last_feed(s, i) + 1, Len(s)))

\* str.splitlines()
RECURSIVE splitlines(_)
splitlines(s) ==
    LET i == first_in(s, 1, {"n"})
    IN  IF s = << >> THEN << >>
        ELSE IF i > Len(s) THEN <<s>>
        ELSE <<SubSeq(s, 1, i - 1)>> \o splitlines(SubSeq(s, i + 1, Len(s)))

\* s[:n]
cut(s, n) == SubSeq(s, 1, IF Len(s) < n THEN Len(s) ELSE n)

\* the text a faithful service returns for s
RECURSIVE Tr(_)
Tr(s) ==
    IF s = << >> THEN << >>
    ELSE <<IF s[1] = "x" THEN "z" ELSE s[1]>> \o Tr(Tail(s))

\* what a call of GoogleTranslator.translate can do: return some text
\* (None counts as the empty text, the code reads both through `or`), or
\* raise, written as a text no service returns
Raised == <<"!">>
Strings(n) == SeqsUpTo({"z", "n", "m"}, n)
Outcomes(text, n) == Strings(n) \cup {Tr(text)} \cup {Raised}

\* the time ranges of the blocks of a subtitle
Second(n) == [h |-> 0, mn |-> 0, s |-> n, ms |-> 0]
Ranges == {<<Second(0), Second(1)>>, <<Second(1), Second(2)>>}

\* group(3) of a match: lines that are not empty, the last block of a file
\* can have a line of white space only
Cues == {<<"x", "n">>, <<"x", "n", "x", "n">>}
LastCues == Cues \cup {<<"s", "n">>}

IndexLine(k) == << <<"1", "2", "3", "4", "5">>[k] >>
TimeToken(k) == << <<"T1", "T2", "T3", "T4", "T5">>[k] >>

\* what block_re.finditer can find in a subtitle of up to MaxBlocks blocks
MatchLists ==
    {ms \in SeqsUpTo([range : Ranges, group3 : LastCues], MaxBlocks) :
        \A k \in DOMAIN ms : k < Len(ms) => ms[k].group3 \in Cues}

\* texts[start : start + BATCH_SIZE], the lists of the model starting at 1
batch_at(ts, first) ==
    SubSeq(ts, first, IF first + BATCH_SIZE - 1 < Len(ts)
                      THEN first + BATCH_SIZE - 1 ELSE Len(ts))

\* the loop after the calls of a batch: a text left empty is the original
filled(tr, ts, first) ==
    [i \in DOMAIN tr |->
        IF i >= first /\ i < first + BATCH_SIZE /\ tr[i] = << >>
        THEN ts[i] ELSE tr[i]]

\* the subtitle is read and matched against the grammar of a block
translate_read(ms) ==
    /\ tr_pc = "read"
    /\ matches' = ms
    /\ IF ms = << >>
       THEN /\ tr_pc' = "returned"
            /\ UNCHANGED <<texts, translated, start, block_i>>
       ELSE /\ texts' = [i \in DOMAIN ms |-> strip(ms[i].group3)]
            /\ translated' = [i \in DOMAIN ms |-> << >>]
            /\ start' = 1
            /\ block_i' = 1
            /\ tr_pc' = "batch"
    /\ UNCHANGED <<beside_text, fix_vars, service_log>>

\* one round of `for start in range(...)` whose combined text is within the
\* limit: one call of the service for the whole batch
translate_batch(outcome) ==
    /\ tr_pc = "batch"
    /\ start <= Len(texts)
    /\ LET batch == batch_at(texts, start)
           combined == join(batch, SEPARATOR)
           parts == split_marks(outcome)
           split == [i \in DOMAIN translated |->
                        IF i >= start /\ i - start + 1 <= Len(parts)
                                      /\ i - start + 1 <= Len(batch)
                        THEN strip(parts[i - start + 1]) ELSE translated[i]]
           kept == [i \in DOMAIN translated |->
                        IF i >= start /\ i - start + 1 <= Len(batch)
                        THEN texts[i] ELSE translated[i]]
       IN  /\ Len(combined) <= COMBINED_LIMIT
           /\ outcome \in Outcomes(combined, MaxResult)
           /\ service_log' = Append(service_log,
                  [call |-> "batch", at |-> start, text |-> combined,
                   outcome |-> outcome])
           /\ translated' = filled(IF outcome = Raised THEN kept ELSE split,
                                   texts, start)
    /\ start' = start + BATCH_SIZE
    /\ UNCHANGED <<beside_text, fix_vars, tr_pc, matches, texts, block_i>>

\* translate_block as it would be without its try
translate_block_unguarded(outcome) ==
    /\ tr_pc = "batch"
    /\ start <= Len(texts)
    /\ LET batch == batch_at(texts, start)
           i == start + block_i - 1
           text == cut(texts[i], TEXT_LIMIT)
           t == IF outcome = << >> THEN texts[i] ELSE outcome
       IN  /\ Len(join(batch, SEPARATOR)) > COMBINED_LIMIT
           /\ outcome \in Outcomes(text, MaxBlockResult)
           /\ service_log' = Append(service_log,
                  [call |-> "block", at |-> i, text |-> text,
                   outcome |-> outcome])
           /\ IF outcome = Raised
              THEN /\ tr_pc' = "raised"
                   /\ UNCHANGED <<translated, block_i, start>>
              ELSE /\ tr_pc' = tr_pc
                   /\ IF block_i < Len(batch)
                      THEN /\ translated' = [translated EXCEPT ![i] = t]
                           /\ block_i' = block_i + 1
                           /\ start' = start
                      ELSE /\ translated' =
                                 filled([translated EXCEPT ![i] = t], texts, start)
                           /\ block_i' = 1
                           /\ start' = start + BATCH_SIZE
    /\ UNCHANGED <<beside_text, fix_vars, matches, texts>>

\* one round of `for i, text in enumerate(batch)`, the path of a batch whose
\* combined text is over the limit: one call of the service for one block,
\* and after the last block of the batch the loop that fills the empty texts
translate_block(outcome) ==
    /\ tr_pc = "batch"
    /\ start <= Len(texts)
    /\ LET batch == batch_at(texts, start)
           i == start + block_i - 1
           text == cut(texts[i], TEXT_LIMIT)
           t == IF outcome \in {Raised, << >>} THEN texts[i] ELSE outcome
       IN  /\ Len(join(batch, SEPARATOR)) > COMBINED_LIMIT
           /\ outcome \in Outcomes(text, MaxBlockResult)
           /\ service_log' = Append(service_log,
                  [call |-> "block", at |-> i, text |-> text,
                   outcome |-> outcome])
           /\ IF block_i < Len(batch)
              THEN /\ translated' = [translated EXCEPT ![i] = t]
                   /\ block_i' = block_i + 1
                   /\ start' = start
              ELSE /\ translated' =
                         filled([translated EXCEPT ![i] = t], texts, start)
                   /\ block_i' = 1
                   /\ start' = start + BATCH_SIZE
    /\ UNCHANGED <<beside_text, fix_vars, tr_pc, matches, texts>>

\* f"{m.group(1)}\n{m.group(2)}\n{translated[i]}\n" for every match
out_blocks(ms, tr) ==
    [i \in DOMAIN ms |-> IndexLine(i) \o <<"n">> \o TimeToken(i) \o <<"n">>
                             \o tr[i] \o <<"n">>]

\* a line of a file as the repair reads it: the time line of block k, or text
line_of(l, ms) ==
    IF \E k \in DOMAIN ms : l = TimeToken(k)
    THEN LET k == CHOOSE k \in DOMAIN ms : l = TimeToken(k)
         IN  TimeLine(ms[k].range[1], ms[k].range[2])
    ELSE TextLine(l)

\* the entries of a file and the lines of every entry, as
\* re.split(r"\n\s*\n", content.strip()) and entry.strip().splitlines() give
entries_of(content, ms) ==
    LET es == split_blank(strip(content))
    IN  [e \in DOMAIN es |->
            LET ls == splitlines(strip(es[e]))
            IN  [l \in DOMAIN ls |-> line_of(ls[l], ms)]]

\* the translated file is written and handed to _fix_srt_overlaps
translate_write ==
    /\ tr_pc = "batch"
    /\ start > Len(texts)
    /\ srt_file' = entries_of(join(out_blocks(matches, translated), <<"n">>), matches)
    /\ fix_pc' = "read"
    /\ tr_pc' = "fixing"
    /\ UNCHANGED <<beside_text, entries, fixed, prev_end_ms, entry_i,
                   matches, texts, translated, start, block_i, service_log>>

\* _fix_srt_overlaps has returned, and so does the translation
translate_return ==
    /\ tr_pc = "fixing"
    /\ fix_pc = "returned"
    /\ tr_pc' = "returned"
    /\ UNCHANGED <<beside_text, fix_vars, matches, texts, translated, start,
                   block_i, service_log>>

\* _translate_srt_to_chinese is called on a subtitle file
TranslateInit ==
    /\ download_init
    /\ MAX_CONCURRENT_DOWNLOADS = MaxCapacity
    /\ cookie_files = {}
    /\ pool_init
    /\ response = NoResponse
    /\ srt_file = << >>
    /\ fix_init
    /\ tr_pc = "read"
    /\ matches = Unbound
    /\ texts = Unbound
    /\ translated = Unbound
    /\ start = Unbound
    /\ block_i = Unbound
    /\ service_log = << >>
    /\ view_init

TranslateNext ==
    \/ \E ms \in MatchLists : translate_read(ms)
    \/ \E outcome \in Strings(MaxResult) \cup {Raised} : translate_batch(outcome)
    \/ translate_batch(Tr(join(batch_at(texts, start), SEPARATOR)))
    \/ \E outcome \in Strings(MaxBlockResult) \cup {Raised} : translate_block(outcome)
    \/ translate_block(Tr(cut(texts[start + block_i - 1], TEXT_LIMIT)))
    \/ translate_write
    \/ fix_read
    \/ fix_entry
    \/ fix_write
    \/ translate_return

TranslateSpec == TranslateInit /\ [][TranslateNext]_vars

\* ------------------------------------------------ the locks of a request

\* A request for a download and the worker it starts, as the sequence of
\* the sections under a lock and of the external calls they go through.
Threads == 1..NumThreads

Acquire(l) == [op |-> "acquire", arg |-> l, n |-> 0]
Release(l) == [op |-> "release", arg |-> l, n |-> 0]
Call(k) == [op |-> "call", arg |-> k, n |-> 0]
Return(k) == [op |-> "return", arg |-> k, n |-> 0]
Callback(k) == [op |-> "callback", arg |-> k, n |-> 0]
Resume(k) == [op |-> "resume", arg |-> k, n |-> 0]
\* go on with the next step or with the step n further
Branch(n) == [op |-> "branch", arg |-> None, n |-> n]

\* `with jobs_lock:` of make_job, update_job and clean_old_jobs
with_jobs_lock == <<Acquire("jobs_lock"), Release("jobs_lock")>>

\* get_next_cookie as it would be if it returned with _pool_lock held
get_next_cookie_keeps_lock == <<Branch(3), Acquire("_pool_lock"), Branch(1)>>

\* get_next_cookie under _get_base_opts: no lock with an empty pool
get_next_cookie_section == <<Branch(3), Acquire("_pool_lock"), Release("_pool_lock")>>

\* an external call that runs a callback of the worker any number of times:
\* progress_hook and burn_progress_cb end in update_job
with_callbacks(k) ==
    <<Call(k), Branch(6), Callback(k)>> \o with_jobs_lock
        \o <<Resume(k), Branch(-4), Return(k)>>

\* submit_download as it would be if it wrote the position under both
\* locks, jobs_lock taken first
submit_section_reversed ==
    <<Acquire("jobs_lock"), Acquire("_pending_lock"),
      Release("_pending_lock"), Release("jobs_lock")>>

\* submit_download up to the start of the worker
submit_section ==
    <<Acquire("_pending_lock"), Release("_pending_lock")>> \o with_jobs_lock

\* _worker up to run_download: the job is marked queued or not, and under
\* _pending_lock every job still waiting gets its position
worker_section ==
    <<Branch(3)>> \o with_jobs_lock
        \o <<Acquire("_pending_lock"), Branch(4)>> \o with_jobs_lock
        \o <<Branch(-2), Release("_pending_lock")>>

\* the download of run_download, with its second try in the fallback format
download_section ==
    get_next_cookie_section \o with_callbacks("extraction")
        \o <<Branch(11)>> \o with_jobs_lock \o with_callbacks("extraction")
        \o with_jobs_lock

\* _download_subtitle with its three attempts, the translation, the burn
subtitle_section ==
    get_next_cookie_section \o <<Call("extraction"), Return("extraction"), Branch(-2)>>
        \o <<Branch(5)>> \o with_jobs_lock
        \o <<Call("translation"), Return("translation")>>
        \o with_jobs_lock \o with_callbacks("transcoding") \o with_jobs_lock

\* api_download and the thread it starts, to the last update_job
Program ==
    with_jobs_lock \o with_jobs_lock \o submit_section \o worker_section
        \o download_section \o <<Branch(Len(subtitle_section) + 1)>>
        \o subtitle_section \o with_jobs_lock

Step(t) == Program[lpc[t]]
Running(t) == lpc[t] <= Len(Program)

\* a thread enters a `with` of a lock, when the lock is free
lock_acquire(t) ==
    /\ Running(t)
    /\ Step(t).op = "acquire"
    /\ held[Step(t).arg] = NoThread
    /\ held' = [held EXCEPT ![Step(t).arg] = t]
    /\ lpc' = [lpc EXCEPT ![t] = @ + 1]
    /\ UNCHANGED <<download_vars, pool_vars, api_vars, text_vars, stage_vars, stream_vars,
                   sweep_vars, waiting>>

\* a thread leaves the `with`
lock_release(t) ==
    /\ Running(t)
    /\ Step(t).op = "release"
    /\ held' = [held EXCEPT ![Step(t).arg] = IF @ = t THEN NoThread ELSE @]
    /\ lpc' = [lpc EXCEPT ![t] = @ + 1]
    /\ UNCHANGED <<download_vars, pool_vars, api_vars, text_vars, stage_vars, stream_vars,
                   sweep_vars, waiting>>

\* a thread calls the extraction service, the translation service or the
\* transcoding tool and waits for it
external_call(t) ==
    /\ Running(t)
    /\ Step(t).op \in {"call", "resume"}
    /\ waiting' = [waiting EXCEPT ![t] = Step(t).arg]
    /\ lpc' = [lpc EXCEPT ![t] = @ + 1]
    /\ UNCHANGED <<download_vars, pool_vars, api_vars, text_vars, stage_vars, stream_vars,
                   sweep_vars, held>>

\* the call returns or raises, or runs a callback in the thread
external_return(t) ==
    /\ Running(t)
    /\ Step(t).op \in {"return", "callback"}
    /\ waiting' = [waiting EXCEPT ![t] = None]
    /\ lpc' = [lpc EXCEPT ![t] = @ + 1]
    /\ UNCHANGED <<download_vars, pool_vars, api_vars, text_vars, stage_vars, stream_vars,
                   sweep_vars, held>>

\* an if or a loop of the code
branch(t, taken) ==
    /\ Running(t)
    /\ Step(t).op = "branch"
    /\ lpc' = [lpc EXCEPT ![t] = IF taken THEN @ + Step(t).n ELSE @ + 1]
    /\ UNCHANGED <<download_vars, pool_vars, api_vars, text_vars, stage_vars, stream_vars,
                   sweep_vars, held, waiting>>

LockNext ==
    \E t \in Threads :
        \/ lock_acquire(t)
        \/ lock_release(t)
        \/ external_call(t)
        \/ external_return(t)
        \/ \E taken \in BOOLEAN : branch(t, taken)

LockSpec == Init /\ [][LockNext]_vars

\* LockSpec with a scheduler that lets a thread go on: a thread that can
\* release does, a thread does not go round a loop for ever (the loops are
\* over a finite list or range), and a thread that finds the lock free again
\* and again gets it in the end
LockLiveSpec ==
    /\ Init
    /\ [][LockNext]_vars
    /\ \A t \in Threads :
          /\ WF_vars(lock_release(t))
          /\ SF_vars(branch(t, FALSE))
          /\ SF_vars(lock_acquire(t))

\* ----------------------------------------------------- the progress stream

Streams == 1..NumStreams
StreamJobs == 1..MaxStreamJobs
Open == {"wait", "poll"}

\* GET /api/progress/<job_id>: the generator is created
stream_open(s, j) ==
    /\ stream_pc[s] = "closed"
    /\ stream_pc' = [stream_pc EXCEPT ![s] = "wait"]
    /\ stream_job' = [stream_job EXCEPT ![s] = j]
    /\ deadline' = [deadline EXCEPT ![s] = MaxWait]
    /\ UNCHANGED <<download_vars, pool_vars, api_vars, text_vars, stage_vars, lock_vars,
                   sweep_vars, last_event, terminal_events>>

\* one round of `while not get_job(job_id) and time.time() < deadline`
stream_wait(s) ==
    /\ stream_pc[s] = "wait"
    /\ IF get_job(stream_job[s]) = << >> /\ deadline[s] > 0
       THEN /\ deadline' = [deadline EXCEPT ![s] = @ - 1]
            /\ UNCHANGED stream_pc
       ELSE /\ stream_pc' = [stream_pc EXCEPT ![s] = "poll"]
            /\ UNCHANGED deadline
    /\ UNCHANGED <<download_vars, pool_vars, api_vars, text_vars, stage_vars, lock_vars,
                   sweep_vars, stream_job, last_event, terminal_events>>

\* the events a stream has yielded, as far as they count
count_event(s, status) ==
    /\ last_event' = [last_event EXCEPT ![s] = status]
    /\ terminal_events' =
          [terminal_events EXCEPT ![s] =
              IF status \in Terminal /\ @ < 2 THEN @ + 1 ELSE @]

\* stream_abandon as it would be if closing the stream cancelled the job
stream_abandon_cancels(s) ==
    /\ stream_pc[s] \in Open
    /\ stream_pc' = [stream_pc EXCEPT ![s] = "abandoned"]
    /\ jobs' = update_job(jobs, stream_job[s], [status |-> "error"])
    /\ UNCHANGED <<MAX_CONCURRENT_DOWNLOADS, download_sem, sem_waiters,
                   pending_jobs, pending_lock, pc, args, pos, loop_i, hooks,
                   files, sub_file, pool_vars, api_vars, text_vars, stage_vars, lock_vars,
                   sweep_vars, stream_job, deadline, last_event, terminal_events>>

\* the client disconnects and the server closes the generator
stream_abandon(s) ==
    /\ stream_pc[s] \in Open
    /\ stream_pc' = [stream_pc EXCEPT ![s] = "abandoned"]
    /\ UNCHANGED <<download_vars, pool_vars, api_vars, text_vars, stage_vars, lock_vars,
                   sweep_vars, stream_job, deadline, last_event, terminal_events>>

\* one round of `while True`: the record is read and sent, or the notice
\* that it is gone; the loop ends after a terminal status
stream_poll(s) ==
    /\ stream_pc[s] = "poll"
    /\ LET job == get_job(stream_job[s]) IN
       IF job = << >>
       THEN /\ count_event(s, "error")
            /\ stream_pc' = [stream_pc EXCEPT ![s] = "ended"]
       ELSE /\ count_event(s, job.status)
            /\ stream_pc' = [stream_pc EXCEPT ![s] =
                                IF job.status \in Terminal THEN "ended" ELSE "poll"]
    /\ UNCHANGED <<download_vars, pool_vars, api_vars, text_vars, stage_vars, lock_vars,
                   sweep_vars, stream_job, deadline>>

\* the downloads of Spec for the first MaxStreamJobs requests, and the
\* streams opened for their job ids at any moment
StreamNext ==
    \/ \E j \in StreamJobs, q \in Qualities, b \in BOOLEAN :
           api_download(j, q, b, FirstUser)
    \/ \E j \in JobIds : make_job(j)
    \/ \E j \in JobIds : submit_append(j)
    \/ \E j \in JobIds : submit_download(j)
    \/ \E j \in JobIds : worker_try_acquire(j)
    \/ \E j \in JobIds : worker_mark_queued(j)
    \/ \E j \in JobIds : worker_blocking_acquire(j)
    \/ \E j \in JobIds : worker_dequeue(j)
    \/ \E j \in JobIds : worker_recount(j)
    \/ \E j \in JobIds : worker_release(j)
    \/ \E j \in JobIds, ok \in BOOLEAN : run_mkdir(j, ok)
    \/ \E j \in JobIds, d \in HookEvents : progress_hook(j, d)
    \/ \E j \in JobIds, o \in {"returned", "format_unavailable", "raised"} :
           first_download(j, o)
    \/ \E j \in JobIds, o \in {"returned", "raised"} : fallback_download(j, o)
    \/ \E j \in JobIds, found \in BOOLEAN : find_output(j, found)
    \/ \E j \in JobIds, sub \in SubtitleOutcomes : acquire_subtitle(j, sub)
    \/ \E j \in JobIds, ok \in BOOLEAN : translate_subtitle(j, ok)
    \/ \E j \in JobIds : start_burn(j)
    \/ \E j \in JobIds, raw \in BurnRaw : burn_progress_cb(j, raw)
    \/ \E j \in JobIds, ok \in BOOLEAN : burn_subtitle(j, ok)
    \/ \E j \in JobIds : finalize(j)
    \/ time_passes
    \/ \E s \in Streams, j \in StreamJobs : stream_open(s, j)
    \/ \E s \in Streams : stream_wait(s)
    \/ \E s \in Streams : stream_poll(s)
    \/ \E s \in Streams : stream_abandon(s)

StreamSpec == Init /\ [][StreamNext]_vars

\* ------------------------------------------------------- the age of jobs

SweepJobs == 1..MaxSweepJobs

\* more than the hour of the cutoff goes by: the jobs that are terminal now
\* ended before the cutoff of any later sweep, and so was every file
\* written
retention_passes ==
    /\ \E j \in DOMAIN jobs : jobs[j].status \in Terminal /\ j \notin aged
    /\ aged' = aged \cup {j \in DOMAIN jobs : jobs[j].status \in Terminal}
    /\ files' = [j \in JobIds |->
                    [k \in {"original", "burned"} |->
                        IF files[j][k] = "fresh" THEN "old" ELSE files[j][k]]]
    /\ UNCHANGED <<MAX_CONCURRENT_DOWNLOADS, jobs, download_sem, sem_waiters,
                   pending_jobs, pending_lock, pc, args, pos, loop_i, hooks,
                   sub_file, pool_vars, api_vars, text_vars, stage_vars, lock_vars,
                   stream_vars>>

\* the downloads of Spec for the first MaxSweepJobs requests, each request
\* running the sweep, and the time between them
SweepNext ==
    \/ \E j \in SweepJobs, q \in Qualities, b \in BOOLEAN :
           api_download(j, q, b, FirstUser)
    \/ \E j \in JobIds : make_job(j)
    \/ \E j \in JobIds : submit_append(j)
    \/ \E j \in JobIds : submit_download(j)
    \/ \E j \in JobIds : worker_try_acquire(j)
    \/ \E j \in JobIds : worker_mark_queued(j)
    \/ \E j \in JobIds : worker_blocking_acquire(j)
    \/ \E j \in JobIds : worker_dequeue(j)
    \/ \E j \in JobIds : worker_recount(j)
    \/ \E j \in JobIds : worker_release(j)
    \/ \E j \in JobIds, ok \in BOOLEAN : run_mkdir(j, ok)
    \/ \E j \in JobIds, d \in HookEvents : progress_hook(j, d)
    \/ \E j \in JobIds, o \in {"returned", "format_unavailable", "raised"} :
           first_download(j, o)
    \/ \E j \in JobIds, o \in {"returned", "raised"} : fallback_download(j, o)
    \/ \E j \in JobIds, found \in BOOLEAN : find_output(j, found)
    \/ \E j \in JobIds, sub \in SubtitleOutcomes : acquire_subtitle(j, sub)
    \/ \E j \in JobIds, ok \in BOOLEAN : translate_subtitle(j, ok)
    \/ \E j \in JobIds : start_burn(j)
    \/ \E j \in JobIds, raw \in BurnRaw : burn_progress_cb(j, raw)
    \/ \E j \in JobIds, ok \in BOOLEAN : burn_subtitle(j, ok)
    \/ \E j \in JobIds : finalize(j)
    \/ time_passes
    \/ retention_passes

SweepSpec == Init /\ [][SweepNext]_vars

\* ------------------------------------------- changes of the credential pool

\* api_cookies_delete as it would be if it reset the cursor
api_cookies_delete_resets ==
    /\ cookie_files # {}
    /\ cookie_files' = {}
    /\ pool_idx' = 0
    /\ UNCHANGED <<beside_pool, pool_lock, cpc, kind, pool, idx, cookiefile,
                   served>>

\* POST /api/cookies/upload: a file under a new name yt_<8 hex digits>.txt
api_cookies_upload(c) ==
    /\ c \notin cookie_files
    /\ cookie_files' = cookie_files \cup {c}
    /\ UNCHANGED <<beside_pool, pool_idx, pool_lock, cpc, kind, pool, idx,
                   cookiefile, served>>

\* POST /api/cookies/delete: every file of the pool is unlinked
api_cookies_delete ==
    /\ cookie_files # {}
    /\ cookie_files' = {}
    /\ UNCHANGED <<beside_pool, pool_idx, pool_lock, cpc, kind, pool, idx,
                   cookiefile, served>>

\* POST /api/cookies/delete/<cookie_id>
api_cookies_delete_one(c) ==
    /\ c \in cookie_files
    /\ cookie_files' = cookie_files \ {c}
    /\ UNCHANGED <<beside_pool, pool_idx, pool_lock, cpc, kind, pool, idx,
                   cookiefile, served>>

\* a service whose credential directory holds any pool, also none
PoolChangeInit ==
    /\ download_init
    /\ MAX_CONCURRENT_DOWNLOADS = MaxCapacity
    /\ cookie_files \in SUBSET CookieIds
    /\ pool_init
    /\ response = NoResponse
    /\ srt_file = << >>
    /\ fix_init
    /\ translate_init
    /\ view_init

\* the first threads ask for credentials, MaxChangeCalls times in all, while
\* files are uploaded and deleted
PoolChangeNext ==
    \/ \E t \in 1..MaxChangeCallers :
           calls < MaxChangeCalls /\ get_base_opts(t)
    \/ \E t \in Callers : get_next_cookie(t)
    \/ \E t \in Callers : get_next_cookie_lock(t)
    \/ \E t \in Callers : get_next_cookie_unlock(t)
    \/ \E t \in Callers : get_base_opts_return(t)
    \/ \E c \in CookieIds : api_cookies_upload(c)
    \/ api_cookies_delete
    \/ \E c \in CookieIds : api_cookies_delete_one(c)

PoolChangeSpec == PoolChangeInit /\ [][PoolChangeNext]_vars

\* ------------------------------------------- the acquisition of a subtitle

\* The workers of jobs with burn_subtitle, from the update that records the
\* original file to the update that follows the acquisition, with the locks
\* they take on the way.
SubtitleStagePcs == {"extract", "sleep", "scan"}

sub_unchanged ==
    UNCHANGED <<download_vars, pool_vars, api_vars, text_vars, base_vars,
                burn_vars, fetch_vars, table_vars, twice_vars, stream_vars,
                sweep_vars, lpc, waiting>>

\* `with jobs_lock:` of the update_job before and after the acquisition
sub_update_job(t) ==
    /\ sub_pc[t] \in {"update_original", "update_after"}
    /\ held["jobs_lock"] = NoThread
    /\ held' = [held EXCEPT !["jobs_lock"] = t]
    /\ sub_pc' = [sub_pc EXCEPT ![t] =
                     IF @ = "update_original" THEN "original_locked"
                                              ELSE "after_locked"]
    /\ UNCHANGED <<attempt, slept, job_dir, sub_found, tries, scans>>
    /\ sub_unchanged

sub_update_job_end(t) ==
    /\ sub_pc[t] \in {"original_locked", "after_locked"}
    /\ held' = [held EXCEPT !["jobs_lock"] = NoThread]
    /\ sub_pc' = [sub_pc EXCEPT ![t] =
                     IF @ = "original_locked" THEN "base_opts" ELSE "ended"]
    /\ UNCHANGED <<attempt, slept, job_dir, sub_found, tries, scans>>
    /\ sub_unchanged

\* _get_base_opts of _download_subtitle: get_next_cookie takes _pool_lock
\* unless the pool is empty
sub_base_opts(t, empty) ==
    /\ sub_pc[t] = "base_opts"
    /\ IF empty
       THEN /\ held' = held
            /\ sub_pc' = [sub_pc EXCEPT ![t] = "extract"]
            /\ attempt' = [attempt EXCEPT ![t] = 0]
       ELSE /\ held["_pool_lock"] = NoThread
            /\ held' = [held EXCEPT !["_pool_lock"] = t]
            /\ sub_pc' = [sub_pc EXCEPT ![t] = "opts_locked"]
            /\ attempt' = attempt
    /\ UNCHANGED <<slept, job_dir, sub_found, tries, scans>>
    /\ sub_unchanged

sub_base_opts_end(t) ==
    /\ sub_pc[t] = "opts_locked"
    /\ held' = [held EXCEPT !["_pool_lock"] = NoThread]
    /\ sub_pc' = [sub_pc EXCEPT ![t] = "extract"]
    /\ attempt' = [attempt EXCEPT ![t] = 0]
    /\ UNCHANGED <<slept, job_dir, sub_found, tries, scans>>
    /\ sub_unchanged

\* what a call of the extraction service does: it writes a subtitle file or
\* not, and returns or raises
ExtractOutcomes == [wrote : BOOLEAN, raised : BOOLEAN]

\* the pass of the loop `for attempt in range(3)` up to the sleep, with one
\* pass more
download_subtitle_attempt_again(t, o) ==
    /\ sub_pc[t] = "extract"
    /\ tries' = [tries EXCEPT ![t] = @ + 1]
    /\ job_dir' = [job_dir EXCEPT ![t] = @ \/ o.wrote]
    /\ IF ~o.raised /\ job_dir'[t]
       THEN /\ sub_found' = [sub_found EXCEPT ![t] = "subtitle"]
            /\ sub_pc' = [sub_pc EXCEPT ![t] = "scan"]
       ELSE /\ sub_found' = [sub_found EXCEPT ![t] =
                                IF attempt[t] < 3 THEN @ ELSE None]
            /\ sub_pc' = [sub_pc EXCEPT ![t] =
                             IF attempt[t] < 3 THEN "sleep" ELSE "scan"]
    /\ UNCHANGED <<attempt, slept, scans, held>>
    /\ sub_unchanged

\* the pass of the loop `for attempt in range(3)` up to the sleep: the call,
\* _find_subtitle when the call returned, `return found` or, after the third
\* pass, `return None`
download_subtitle_attempt(t, o) ==
    /\ sub_pc[t] = "extract"
    /\ tries' = [tries EXCEPT ![t] = @ + 1]
    /\ job_dir' = [job_dir EXCEPT ![t] = @ \/ o.wrote]
    /\ IF ~o.raised /\ job_dir'[t]
       THEN /\ sub_found' = [sub_found EXCEPT ![t] = "subtitle"]
            /\ sub_pc' = [sub_pc EXCEPT ![t] = "scan"]
       ELSE /\ sub_found' = [sub_found EXCEPT ![t] =
                                IF attempt[t] < 2 THEN @ ELSE None]
            /\ sub_pc' = [sub_pc EXCEPT ![t] =
                             IF attempt[t] < 2 THEN "sleep" ELSE "scan"]
    /\ UNCHANGED <<attempt, slept, scans, held>>
    /\ sub_unchanged

\* time.sleep(2 ** (attempt + 1)) and the next pass
download_subtitle_sleep(t) ==
    /\ sub_pc[t] = "sleep"
    /\ slept' = [slept EXCEPT ![t] = Append(@, 2 ^ (attempt[t] + 1))]
    /\ attempt' = [attempt EXCEPT ![t] = @ + 1]
    /\ sub_pc' = [sub_pc EXCEPT ![t] = "extract"]
    /\ UNCHANGED <<job_dir, sub_found, tries, scans, held>>
    /\ sub_unchanged

\* `if sub_file is None: sub_file = _find_subtitle(job_dir)` of run_download
scan_job_dir(t) ==
    /\ sub_pc[t] = "scan"
    /\ IF sub_found[t] = None
       THEN /\ scans' = [scans EXCEPT ![t] = @ + 1]
            /\ sub_found' = [sub_found EXCEPT ![t] =
                                IF job_dir[t] THEN "subtitle" ELSE None]
       ELSE /\ scans' = scans
            /\ sub_found' = sub_found
    /\ sub_pc' = [sub_pc EXCEPT ![t] = "update_after"]
    /\ UNCHANGED <<attempt, slept, job_dir, tries, held>>
    /\ sub_unchanged

SubtitleNext ==
    \/ \E t \in Threads : sub_update_job(t)
    \/ \E t \in Threads : sub_update_job_end(t)
    \/ \E t \in Threads, empty \in BOOLEAN : sub_base_opts(t, empty)
    \/ \E t \in Threads : sub_base_opts_end(t)
    \/ \E t \in Threads, o \in ExtractOutcomes : download_subtitle_attempt(t, o)
    \/ \E t \in Threads : download_subtitle_sleep(t)
    \/ \E t \in Threads : scan_job_dir(t)

SubtitleSpec == Init /\ [][SubtitleNext]_vars

\* ------------------------------------------------------ the base download

\* The try of run_download from the first _do_download to the search for the
\* output file, and the handler that closes it, a step per statement.
base_unchanged ==
    UNCHANGED <<MAX_CONCURRENT_DOWNLOADS, download_sem, sem_waiters,
                pending_jobs, pending_lock, pc, args, pos, loop_i, hooks,
                files, sub_file, pool_vars, api_vars, text_vars,
                subtitle_vars, burn_vars, fetch_vars, table_vars, twice_vars,
                view_vars>>

\* make_job of the request the worker belongs to
base_make_job(t) ==
    /\ base_pc[t] = "make_job"
    /\ jobs' = (t :> NewJob(FirstUser)) @@ jobs
    /\ base_pc' = [base_pc EXCEPT ![t] = "first"]
    /\ UNCHANGED <<exc, base_calls, failures, partial>>
    /\ base_unchanged

\* what a call of the extraction service does: it leaves files in the job
\* directory or not, and returns or raises with a message
Messages == {"Requested format is not available", "other"}
DownloadOutcomes == [wrote : BOOLEAN, raised : Messages \cup {None}]

\* title = _do_download(ydl_opts), or _do_download(fallback_opts) from inside
\* the handler of the first
do_download(t, o) ==
    /\ base_pc[t] \in {"first", "second"}
    /\ base_calls' = [base_calls EXCEPT ![t] =
                         Append(@, IF base_pc[t] = "first" THEN "quality" ELSE "best")]
    /\ partial' = [partial EXCEPT ![t] = @ \/ o.wrote]
    /\ exc' = [exc EXCEPT ![t] = o.raised]
    /\ failures' = [failures EXCEPT ![t] =
                       IF o.raised = None THEN @ ELSE Append(@, o.raised)]
    /\ base_pc' = [base_pc EXCEPT ![t] =
                      CASE o.raised = None -> "find_output"
                        [] o.raised # None /\ base_pc[t] = "first" -> "except"
                        [] OTHER -> "handler"]
    /\ jobs' = jobs
    /\ base_unchanged

\* the handler of the first call as it would be if it tried the fallback
\* format after any failure
download_except_any(t) ==
    /\ base_pc[t] = "except"
    /\ partial' = [partial EXCEPT ![t] = FALSE]
    /\ jobs' = update_job(jobs, t, [status |-> "downloading", progress |-> 0])
    /\ exc' = [exc EXCEPT ![t] = None]
    /\ base_pc' = [base_pc EXCEPT ![t] = "second"]
    /\ UNCHANGED <<base_calls, failures>>
    /\ base_unchanged

\* `except Exception as e` of the first call: the directory is emptied and
\* the record reset for the fallback, or the exception goes on
download_except(t) ==
    /\ base_pc[t] = "except"
    /\ IF exc[t] = "Requested format is not available"
       THEN /\ partial' = [partial EXCEPT ![t] = FALSE]
            /\ jobs' = update_job(jobs, t, [status |-> "downloading", progress |-> 0])
            /\ exc' = [exc EXCEPT ![t] = None]
            /\ base_pc' = [base_pc EXCEPT ![t] = "second"]
       ELSE /\ partial' = partial
            /\ jobs' = jobs
            /\ exc' = exc
            /\ base_pc' = [base_pc EXCEPT ![t] = "handler"]
    /\ UNCHANGED <<base_calls, failures>>
    /\ base_unchanged

\* the search for the output file: RuntimeError with an empty directory
base_find_output(t) ==
    /\ base_pc[t] = "find_output"
    /\ IF partial[t]
       THEN /\ exc' = exc
            /\ jobs' = update_job(jobs, t, [original_filepath |-> "video.mp4"])
            /\ base_pc' = [base_pc EXCEPT ![t] = "post"]
       ELSE /\ exc' = [exc EXCEPT ![t] = "no file"]
            /\ jobs' = jobs
            /\ base_pc' = [base_pc EXCEPT ![t] = "handler"]
    /\ UNCHANGED <<base_calls, failures, partial>>
    /\ base_unchanged

\* `except Exception as e` that closes run_download
base_error_handler(t) ==
    /\ base_pc[t] = "handler"
    /\ jobs' = update_job(jobs, t,
                   [status |-> "error", error |-> exc[t], completed_at |-> "time"])
    /\ exc' = [exc EXCEPT ![t] = None]
    /\ base_pc' = [base_pc EXCEPT ![t] = "ended"]
    /\ UNCHANGED <<base_calls, failures, partial>>
    /\ base_unchanged

BaseNext ==
    \/ \E t \in Threads : base_make_job(t)
    \/ \E t \in Threads, o \in DownloadOutcomes : do_download(t, o)
    \/ \E t \in Threads : download_except(t)
    \/ \E t \in Threads : base_find_output(t)
    \/ \E t \in Threads : base_error_handler(t)

BaseSpec == Init /\ [][BaseNext]_vars

\* ------------------------------------------------------------ the burn-in

\* _burn_subtitle_with_progress and the try of run_download around it, a
\* step per statement that can raise.
burn_unchanged ==
    UNCHANGED <<MAX_CONCURRENT_DOWNLOADS, download_sem, sem_waiters,
                pending_jobs, pending_lock, pc, args, pos, loop_i, hooks,
                files, sub_file, pool_vars, api_vars, text_vars,
                subtitle_vars, base_vars, fetch_vars, table_vars, twice_vars,
                view_vars>>

\* the job of the worker, made by the request, with its original file
burn_make_job(t) ==
    /\ t \notin DOMAIN jobs
    /\ burn_pc[t] = "copy"
    /\ jobs' = (t :> [NewJob(FirstUser) EXCEPT !.status = "burning",
                                              !.original_filepath = "video.mp4"])
                   @@ jobs
    /\ UNCHANGED burn_vars
    /\ burn_unchanged

\* shutil.copy(sub_path, simple_sub)
burn_copy(t, ok) ==
    /\ t \in DOMAIN jobs
    /\ burn_pc[t] = "copy"
    /\ jobs' = jobs
    /\ simple_sub' = [simple_sub EXCEPT ![t] = ok]
    /\ burn_pc' = [burn_pc EXCEPT ![t] = IF ok THEN "probe" ELSE "raised"]
    /\ burn_end' = [burn_end EXCEPT ![t] = IF ok THEN @ ELSE "copy raised"]
    /\ UNCHANGED duration_us
    /\ burn_unchanged

\* ffprobe inside try/except: an exception leaves duration_us at 0.0
burn_probe(t, ok) ==
    /\ burn_pc[t] = "probe"
    /\ jobs' = jobs
    /\ duration_us' = [duration_us EXCEPT ![t] = IF ok THEN 1 ELSE 0]
    /\ burn_pc' = [burn_pc EXCEPT ![t] = "launch"]
    /\ UNCHANGED <<simple_sub, burn_end>>
    /\ burn_unchanged

\* subprocess.Popen(cmd, ...) and the start of the thread that reads stderr
burn_launch(t, ok) ==
    /\ burn_pc[t] = "launch"
    /\ jobs' = jobs
    /\ burn_pc' = [burn_pc EXCEPT ![t] = IF ok THEN "read" ELSE "raised"]
    /\ burn_end' = [burn_end EXCEPT ![t] = IF ok THEN @ ELSE "launch raised"]
    /\ UNCHANGED <<simple_sub, duration_us>>
    /\ burn_unchanged

\* a pass of `for line in proc.stdout`: a line of progress with its
\* callback, the end of the output, or an exception of the read
burn_read(t, o) ==
    /\ burn_pc[t] = "read"
    /\ CASE o = "line" ->
              /\ jobs' = IF duration_us[t] > 0
                         THEN update_job(jobs, t, [status |-> "burning", progress |-> 50])
                         ELSE jobs
              /\ UNCHANGED <<burn_pc, burn_end>>
         [] o = "end" ->
              /\ jobs' = jobs
              /\ burn_pc' = [burn_pc EXCEPT ![t] = "wait"]
              /\ burn_end' = burn_end
         [] OTHER ->
              /\ jobs' = jobs
              /\ burn_pc' = [burn_pc EXCEPT ![t] = "raised"]
              /\ burn_end' = [burn_end EXCEPT ![t] = "read raised"]
    /\ UNCHANGED <<simple_sub, duration_us>>
    /\ burn_unchanged

\* proc.wait(), t.join, simple_sub.unlink(missing_ok=True), and RuntimeError
\* when the return code is not 0
burn_wait(t, returncode) ==
    /\ burn_pc[t] = "wait"
    /\ jobs' = jobs
    /\ simple_sub' = [simple_sub EXCEPT ![t] = FALSE]
    /\ burn_pc' = [burn_pc EXCEPT ![t] = IF returncode = 0 THEN "returned" ELSE "raised"]
    /\ burn_end' = [burn_end EXCEPT ![t] = IF returncode = 0 THEN "exit 0" ELSE "exit 1"]
    /\ UNCHANGED duration_us
    /\ burn_unchanged

\* the try of run_download around the burn-in: the burned file is recorded,
\* or removed and burn_error written
burn_handled(t) ==
    /\ burn_pc[t] \in {"returned", "raised"}
    /\ jobs' = IF burn_pc[t] = "returned"
               THEN update_job(jobs, t, [burned_filepath |-> "video_subbed.mp4"])
               ELSE update_job(jobs, t, [burn_error |-> "message"])
    /\ burn_pc' = [burn_pc EXCEPT ![t] = "ended"]
    /\ UNCHANGED <<simple_sub, duration_us, burn_end>>
    /\ burn_unchanged

BurnNext ==
    \/ \E t \in Threads : burn_make_job(t)
    \/ \E t \in Threads, ok \in BOOLEAN : burn_copy(t, ok)
    \/ \E t \in Threads, ok \in BOOLEAN : burn_probe(t, ok)
    \/ \E t \in Threads, ok \in BOOLEAN : burn_launch(t, ok)
    \/ \E t \in Threads, o \in {"line", "end", "raised"} : burn_read(t, o)
    \/ \E t \in Threads, returncode \in {0, 1} : burn_wait(t, returncode)
    \/ \E t \in Threads : burn_handled(t)

BurnSpec == Init /\ [][BurnNext]_vars

\* ------------------------------------------------- the fetch of artifacts

FetchJobs == 1..MaxFetchJobs

\* GET /api/file/<job_id>/<file_type>, and GET /api/file/<job_id> with the
\* type "original"
api_file_typed(j, file_type) ==
    /\ fetched' = [job |-> j, file_type |-> file_type,
                   code |-> _serve_job_file(j, file_type)]
    /\ UNCHANGED <<download_vars, pool_vars, api_vars, text_vars,
                   subtitle_vars, base_vars, burn_vars, table_vars, twice_vars,
                view_vars>>

\* the downloads of Spec for the first MaxFetchJobs requests, and the
\* requests of their artifacts and of those of a job that is not there
FetchNext ==
    \/ \E j \in FetchJobs, q \in Qualities, b \in BOOLEAN :
           api_download(j, q, b, FirstUser)
    \/ \E j \in JobIds : make_job(j)
    \/ \E j \in JobIds : submit_append(j)
    \/ \E j \in JobIds : submit_download(j)
    \/ \E j \in JobIds : worker_try_acquire(j)
    \/ \E j \in JobIds : worker_mark_queued(j)
    \/ \E j \in JobIds : worker_blocking_acquire(j)
    \/ \E j \in JobIds : worker_dequeue(j)
    \/ \E j \in JobIds : worker_recount(j)
    \/ \E j \in JobIds : worker_release(j)
    \/ \E j \in JobIds, ok \in BOOLEAN : run_mkdir(j, ok)
    \/ \E j \in JobIds, d \in HookEvents : progress_hook(j, d)
    \/ \E j \in JobIds, o \in {"returned", "format_unavailable", "raised"} :
           first_download(j, o)
    \/ \E j \in JobIds, o \in {"returned", "raised"} : fallback_download(j, o)
    \/ \E j \in JobIds, found \in BOOLEAN : find_output(j, found)
    \/ \E j \in JobIds, sub \in SubtitleOutcomes : acquire_subtitle(j, sub)
    \/ \E j \in JobIds, ok \in BOOLEAN : translate_subtitle(j, ok)
    \/ \E j \in JobIds : start_burn(j)
    \/ \E j \in JobIds, raw \in BurnRaw : burn_progress_cb(j, raw)
    \/ \E j \in JobIds, ok \in BOOLEAN : burn_subtitle(j, ok)
    \/ \E j \in JobIds : finalize(j)
    \/ time_passes
    \/ \E j \in 1..(MaxFetchJobs + 1), ft \in {"original", "burned", "other"} :
           api_file_typed(j, ft)

FetchSpec == Init /\ [][FetchNext]_vars

\* ---------------------------------------------------------- the job table

\* make_job, update_job and clean_old_jobs called in any order by any
\* caller, on the files the updates record.
TableJobs == 1..MaxTableJobs

table_unchanged ==
    UNCHANGED <<MAX_CONCURRENT_DOWNLOADS, download_sem, sem_waiters,
                pending_jobs, pending_lock, pc, args, pos, loop_i, hooks,
                sub_file, pool_vars, api_vars, text_vars, subtitle_vars,
                base_vars, burn_vars, fetch_vars, twice_vars, view_vars>>

\* the keyword arguments of the updates of run_download
TableUpdates ==
    {[status |-> "downloading", progress |-> 50],
     [original_filepath |-> "video.mp4"],
     [burned_filepath |-> "video_subbed.mp4"],
     [status |-> "done", progress |-> 100, completed_at |-> "time"],
     [status |-> "error", error |-> "message", completed_at |-> "time"]}

\* make_job with the fresh id of api_download
table_make_job(j) ==
    /\ j \notin made
    /\ made' = made \cup {j}
    /\ jobs' = (j :> NewJob(FirstUser)) @@ jobs
    /\ table_call' = [op |-> "make_job", job |-> j]
    /\ files' = files
    /\ table_unchanged

\* update_job for an id that was given out, in the table or not; the file
\* of a path it records was written just before
table_update_job(j, kwargs) ==
    /\ j \in made
    /\ jobs' = update_job(jobs, j, kwargs)
    /\ files' = [files EXCEPT ![j] =
                    [k \in {"original", "burned"} |->
                        IF (k \o "_filepath") \in DOMAIN kwargs /\ j \in DOMAIN jobs
                        THEN "fresh" ELSE @[k]]]
    /\ table_call' = [op |-> "update_job", job |-> j]
    /\ made' = made
    /\ table_unchanged

\* clean_old_jobs
table_clean_old_jobs ==
    /\ clean_old_jobs
    /\ table_call' = [op |-> "clean_old_jobs", job |-> 0]
    /\ made' = made
    /\ table_unchanged

\* more than an hour goes by: every file written so far is older than the
\* cutoff of the next sweep
table_time_passes ==
    /\ \E j \in JobIds, k \in {"original", "burned"} : files[j][k] = "fresh"
    /\ files' = [j \in JobIds |->
                    [k \in {"original", "burned"} |->
                        IF files[j][k] = "fresh" THEN "old" ELSE files[j][k]]]
    /\ UNCHANGED <<jobs, table_vars>>
    /\ table_unchanged

TableNext ==
    \/ \E j \in TableJobs : table_make_job(j)
    \/ \E j \in TableJobs, kwargs \in TableUpdates : table_update_job(j, kwargs)
    \/ table_clean_old_jobs
    \/ table_time_passes

TableSpec == Init /\ [][TableNext]_vars

\* ============================================================== properties

\* the positions of a worker between its acquire and its release of a slot
SlotPcs ==
    {"admitted", "recount", "mkdir", "download", "fallback", "find_output",
     "subtitle", "translate", "start_burn", "burning", "finalize", "release"}

\* the positions inside run_download
RunPcs == SlotPcs \ {"admitted", "recount", "release"}

Holders == {j \in JobIds : pc[j] \in SlotPcs}

InList(j) == \E i \in DOMAIN pending_jobs : pending_jobs[i] = j

IndexOf(j) == CHOOSE i \in DOMAIN pending_jobs : pending_jobs[i] = j

\* C1: the number of workers holding a slot never exceeds
\* MAX_CONCURRENT_DOWNLOADS, and the semaphore accounts for exactly the slots
\* held: every worker that left, normally or by an exception, gave its slot
\* back once, no more and no less.
C1_ConcurrencyCeiling ==
    /\ Cardinality(Holders) <= MAX_CONCURRENT_DOWNLOADS
    /\ download_sem >= 0
    /\ download_sem + Cardinality(Holders) = MAX_CONCURRENT_DOWNLOADS

\* every slot is held, a job waits, and one worker has already left
\* run_download by an exception
C1_Witness ==
    /\ Cardinality(Holders) = MAX_CONCURRENT_DOWNLOADS
    /\ \E k \in JobIds : pc[k] = "waiting"
    /\ \E j \in DOMAIN jobs : pc[j] = "finished" /\ jobs[j].status \notin Terminal

StatusRank(st) ==
    CASE st = "pending" -> 0
      [] st = "queued" -> 1
      [] st = "downloading" -> 2
      [] st = "merging" -> 3
      [] st = "translating" -> 4
      [] st = "burning" -> 5
      [] st = "done" -> 6
      [] OTHER -> 7

LegalStatusStep(a, b) ==
    \/ a = b
    \/ a \notin Terminal /\ b = "error"
    \/ a \notin Terminal /\ b # "error" /\ StatusRank(b) > StatusRank(a)

\* C2: every change of a job's status moves forward in the order pending,
\* queued, downloading, merging, translating, burning, done, or goes to error
\* from a non-terminal status.
C2_StatusMovesForward ==
    [][\A j \in DOMAIN jobs \cap DOMAIN jobs' :
          LegalStatusStep(jobs[j].status, jobs'[j].status)]_vars

\* C3: once the status of a job is done or error, no step changes it.
C3_TerminalIsFinal ==
    [][\A j \in DOMAIN jobs \cap DOMAIN jobs' :
          jobs[j].status \in Terminal => jobs'[j].status = jobs[j].status]_vars

\* a job is done and its worker gone while another worker recomputes the
\* queue positions of the jobs still waiting
C3_Witness ==
    \E j \in DOMAIN jobs, k \in JobIds :
        /\ jobs[j].status = "done"
        /\ pc[j] = "finished"
        /\ pc[k] = "recount"

\* C4: a worker never ends with its job left in a non-terminal status.
C4_WorkerEndsTerminal ==
    \A j \in DOMAIN jobs : pc[j] = "finished" => jobs[j].status \in Terminal

\* C5: while the status of a job is non-terminal no update lowers its progress.
C5_ProgressMonotone ==
    [][\A j \in DOMAIN jobs \cap DOMAIN jobs' :
          jobs[j].status \notin Terminal => jobs'[j].progress >= jobs[j].progress]_vars

\* C6: a job record whose queue_pos is 0 belongs to a job that holds a slot.
C6_ZeroMeansSlot ==
    \A j \in DOMAIN jobs : jobs[j].queue_pos = 0 => j \in Holders

\* C7: a job that holds a slot and has left the wait list has queue_pos 0, and
\* only jobs waiting for a slot have queue_pos >= 1.
C7_RunningMeansZero ==
    \A j \in DOMAIN jobs :
        /\ (j \in Holders /\ ~InList(j)) => jobs[j].queue_pos = 0
        /\ jobs[j].queue_pos >= 1 => InList(j)

Submitted == {j \in JobIds : pc[j] # "idle"}

\* every submitted job either runs or sleeps on the semaphore, and no worker
\* has finished or is about to release
Settled ==
    /\ \A j \in Submitted : pc[j] \in RunPcs \cup {"waiting"}
    /\ Cardinality(Submitted) >= MAX_CONCURRENT_DOWNLOADS

\* C8: with no job finishing, once C+K jobs are submitted and every worker
\* has made its admission attempt, exactly C jobs hold a slot and the other K
\* are queued with queue_pos 1..K in submission order.
C8_OverflowQueuedInOrder ==
    Settled =>
        /\ Cardinality(Holders) = MAX_CONCURRENT_DOWNLOADS
        /\ \A j \in Submitted \ Holders :
              /\ InList(j)
              /\ jobs[j].status = "queued"
              /\ jobs[j].queue_pos = IndexOf(j)

NoSchedulerStep ==
    \A j \in JobIds : pc[j] \notin {"submit_pos", "admitted", "recount"}

\* C9: whenever no submission or admission step is in progress, the queue_pos
\* values of the jobs in the wait list are 1..N in list order.
C9_PositionsContiguous ==
    NoSchedulerStep =>
        \A i \in DOMAIN pending_jobs : jobs[pending_jobs[i]].queue_pos = i

\* a job that was refused a slot and still waits for one
Refused(k) == pc[k] \in {"mark_queued", "blocking_acquire", "waiting"}

\* C10: no job is admitted while a job submitted before it, already refused a
\* slot, is still waiting.
C10_FifoAdmission ==
    [][\A j \in JobIds :
          (pc[j] # "admitted" /\ pc'[j] = "admitted") =>
              ~ \E k \in JobIds :
                    /\ Refused(k)
                    /\ InList(k) /\ InList(j)
                    /\ IndexOf(k) < IndexOf(j)]_vars

\* C11: the status of a job is downloading exactly while it is admitted: a
\* job inside run_download, its slot acquired, has left pending and queued,
\* and a job whose status is downloading holds a slot.
C11_DownloadingIffAdmitted ==
    \A j \in DOMAIN jobs :
        /\ pc[j] \in RunPcs => jobs[j].status \notin {"pending", "queued"}
        /\ jobs[j].status = "downloading" => j \in Holders

\* the worker of job j has left run_download
Left(j) == pc[j] \in {"release", "finished"}

\* C16: a job whose burn-in failed after a successful base download ends
\* done, with burn_error set, no burned artifact and the original artifact
\* recorded; a failed burn-in never gives status error.
C16_BurnFailureIsNotFatal ==
    \A j \in DOMAIN jobs :
        jobs[j].burn_error # None =>
            /\ jobs[j].burned_filepath = None
            /\ jobs[j].original_filepath # None
            /\ jobs[j].status # "error"
            /\ Left(j) => jobs[j].status = "done"

\* a worker has gone and left its job done with a burn-in failure noted
C16_Witness ==
    \E j \in DOMAIN jobs :
        /\ pc[j] = "finished"
        /\ jobs[j].burn_error # None
        /\ jobs[j].status = "done"

\* C17: once original_filepath is recorded no failure of a later stage makes
\* the job error: error is the outcome of the base download only.
C17_OnlyBaseDownloadIsFatal ==
    \A j \in DOMAIN jobs :
        jobs[j].original_filepath # None => jobs[j].status # "error"

\* C18: a job with burn-in requested for which no subtitle was found ends
\* done with the original artifact recorded, no burned artifact, no error and
\* no burn_error, and never has status translating or burning.
C18_NoSubtitleIsNotAnError ==
    \A j \in DOMAIN jobs :
        /\ jobs[j].status \in {"translating", "burning"} =>
               sub_file[j] \in {"chinese", "foreign"}
        /\ sub_file[j] = "none" =>
               /\ burn_requested(j)
               /\ jobs[j].original_filepath # None
               /\ jobs[j].burned_filepath = None
               /\ jobs[j].error = None
               /\ jobs[j].burn_error = None
               /\ jobs[j].status # "error"
               /\ Left(j) => jobs[j].status = "done"

\* the job that found no subtitle has left run_download, done
C18_Witness ==
    \E j \in DOMAIN jobs :
        /\ sub_file[j] = "none"
        /\ pc[j] = "release"
        /\ jobs[j].status = "done"

\* C19: a job whose status is done has its original artifact recorded,
\* whatever the quality and whether or not burn-in was requested.
C19_DoneHasOriginal ==
    \A j \in DOMAIN jobs :
        jobs[j].status = "done" => jobs[j].original_filepath # None

\* done jobs of both kinds: an audio extraction whose burn-in request was
\* dropped, and a plain download behind it
C19_Witness ==
    \E j, k \in DOMAIN jobs :
        /\ j # k
        /\ jobs[j].status = "done" /\ jobs[k].status = "done"
        /\ pc[j] = "release"
        /\ args[j].quality = "audio" /\ args[j].burn_subtitle

\* C20: a recorded artifact path, original or burned, is never changed or
\* cleared by a later step, also when the job ends in error.
C20_ArtifactsSetOnce ==
    [][\A j \in DOMAIN jobs \cap DOMAIN jobs' :
          /\ jobs[j].original_filepath # None =>
                 jobs'[j].original_filepath = jobs[j].original_filepath
          /\ jobs[j].burned_filepath # None =>
                 jobs'[j].burned_filepath = jobs[j].burned_filepath]_vars

\* a job ended in error after its original artifact was recorded, and its
\* worker has gone
C20_Witness ==
    \E j \in DOMAIN jobs :
        /\ jobs[j].status = "error"
        /\ jobs[j].original_filepath # None
        /\ pc[j] = "finished"

\* how often the credential c was handed out
TimesServed(c) == Cardinality({k \in DOMAIN served : served[k].cookie = c})

\* C14: with a fixed pool of M >= 1 files the calls of get_next_cookie, in
\* the order of their passes through the locked section, get the members of
\* the sorted pool in cyclic order; every member is handed out floor(N/M) or
\* ceil(N/M) times; and every call reads the cursor the call before it wrote,
\* so no two calls are served from the same cursor value.
C14_RoundRobin ==
    LET M == Len(get_cookie_pool) IN
    /\ \A k \in DOMAIN served : served[k].cookie = get_cookie_pool[((k - 1) % M) + 1]
    /\ \A c \in cookie_files :
          /\ TimesServed(c) >= Len(served) \div M
          /\ TimesServed(c) <= (Len(served) + M - 1) \div M
    /\ \A k \in DOMAIN served :
          served[k].cursor = IF k = 1 THEN 0 ELSE (served[k - 1].cursor % M) + 1
    /\ Cardinality({t \in Callers : cpc[t] = "unlock"}) <= 1

\* MaxCalls calls over a pool of two files, the last of them made while two
\* other threads were inside get_next_cookie
C14_Witness ==
    /\ Len(served) = MaxCalls
    /\ Cardinality(cookie_files) = 2
    /\ \E t, u \in Callers : t # u /\ cpc[t] = "unlock" /\ cpc[u] = "return"

\* the credential the next call of get_next_cookie gets
NextCookie == get_cookie_pool[(pool_idx % Len(get_cookie_pool)) + 1]

\* C15: no step of a credential check changes which credential the next
\* call of get_next_cookie gets.
C15_CheckKeepsCursor ==
    [][\A t \in Callers :
          (kind[t] = "check" /\ cpc'[t] # cpc[t]) => NextCookie' = NextCookie]_vars

\* C13: no answer of a read endpoint (job status, progress stream, artifact
\* fetch, history, active jobs) carries the record or an artifact of a job
\* whose user_id is set and differs from the caller's id.
C13_OwnerIsolation ==
    response.owners \subseteq {NoUser, response.uid}

\* C12: under fair scheduling, with every running download ending, a job
\* whose worker has started is eventually admitted, also when new jobs keep
\* being submitted.
C12_EveryJobAdmitted ==
    \A j \in JobIds : (pc[j] = "acquire") ~> (pc[j] = "admitted")

\* the blocks among the entries of a file, in order
IsBlock(e) == Len(e) >= 3 /\ e[2].tc
Blocks(file) == SelectSeq(file, IsBlock)

\* the times of the k-th block before and after the repair
In(k) == Blocks(entries)[k][2]
Out(k) == Blocks(fixed)[k][2]

\* C21: when a block starts before the end of the block before it, the
\* repaired block starts GAP_MS after the repaired end of that block, so not
\* before its end, and ends after its own start.
C21_OverlapRepaired ==
    fix_pc = "returned" =>
        /\ Len(Blocks(fixed)) = Len(Blocks(entries))
        /\ \A k \in 2..Len(Blocks(entries)) :
              _ms(In(k).start) < _ms(In(k - 1).end) =>
                  /\ _ms(Out(k).start) >= _ms(In(k - 1).end)
                  /\ _ms(Out(k).start) = _ms(Out(k - 1).end) + GAP_MS
                  /\ _ms(Out(k).end) > _ms(Out(k).start)

\* three blocks were repaired: the second was shifted and kept its end, the
\* third was shifted and got a new end
C21_Witness ==
    /\ fix_pc = "returned"
    /\ Len(Blocks(entries)) = 3
    /\ _ms(In(2).start) < _ms(In(1).end)
    /\ _ms(Out(2).end) = _ms(In(2).end)
    /\ _ms(In(3).start) < _ms(Out(2).end)
    /\ _ms(Out(3).end) = _ms(Out(3).start) + MIN_DURATION_MS

\* C22: whatever the entries of the input, the repaired blocks form a
\* monotonic timeline without overlap: every block starts no earlier than
\* the block before it starts and ends, and every block ends after it starts.
C22_MonotonicTimeline ==
    fix_pc = "returned" =>
        /\ \A k \in 1..Len(Blocks(fixed)) : _ms(Out(k).end) > _ms(Out(k).start)
        /\ \A k \in 2..Len(Blocks(fixed)) :
              /\ _ms(Out(k).start) >= _ms(Out(k - 1).end)
              /\ _ms(Out(k).start) >= _ms(Out(k - 1).start)

\* the blocks of the batch that starts at block `first`
BatchOf(first) ==
    {i \in DOMAIN texts : i >= first /\ i < first + BATCH_SIZE}

\* C23: whatever the subtitle and whatever the service returns for a batch
\* (fewer, as many or more parts than the batch has blocks), the translated
\* subtitle has exactly as many blocks as the input, block i has the index
\* line and the time range of block i of the input, and a block whose source
\* text is not empty has text.
C23_BlocksPreserved ==
    (tr_pc = "returned" /\ matches # << >>) =>
        /\ Len(Blocks(srt_file)) = Len(matches)
        /\ \A i \in DOMAIN matches :
              /\ Blocks(srt_file)[i][1] = TextLine(IndexLine(i))
              /\ Blocks(srt_file)[i][2] =
                     TimeLine(matches[i].range[1], matches[i].range[2])
              /\ Len(Blocks(srt_file)[i]) >= 3

\* C24: when the call for a whole batch has raised, the blocks of that batch
\* are translated one by one, one call of the service for each block, as in
\* a batch whose combined text is over the limit.
C24_FailedBatchFallsBack ==
    \A k \in DOMAIN service_log :
        (/\ service_log[k].call = "batch"
         /\ service_log[k].outcome = Raised
         /\ start > service_log[k].at) =>
            \A i \in BatchOf(service_log[k].at) :
                \E c \in DOMAIN service_log :
                    /\ c > k
                    /\ service_log[c].call = "block"
                    /\ service_log[c].at = i

\* the part of a returned text that belongs to block i of the batch at `first`
PartFor(outcome, first, i) ==
    IF i - first + 1 <= Len(split_marks(outcome))
    THEN strip(split_marks(outcome)[i - first + 1])
    ELSE << >>

C28_BurnStagesOnlyOnRequest ==
    \A j \in DOMAIN jobs :
        jobs[j].status \in {"translating", "burning"} =>
            /\ args[j].burn_subtitle
            /\ args[j].quality # "audio"

\* a job submitted for audio with burn_subtitle true is done, and its worker
\* has not yet left
C28_Witness ==
    \E j \in DOMAIN jobs :
        /\ args[j].burn_subtitle
        /\ args[j].quality = "audio"
        /\ jobs[j].status = "done"

\* C30: no thread holds jobs_lock, _pending_lock or _pool_lock while it
\* waits for the extraction service, the transcoding tool or the translation
\* service, so that a slow call never keeps another thread out of
\* update_job, get_job, submit_download or get_next_cookie.
C30_NoLockAcrossExternalCall ==
    \A l \in DOMAIN held :
        held[l] # NoThread => waiting[held[l]] = None

\* one thread waits for the translation service while the other is inside
\* a section under jobs_lock
C30_Witness ==
    \E t \in Threads :
        /\ waiting[t] = "translation"
        /\ held["jobs_lock"] \in Threads \ {t}

\* C26: a progress stream ends once the worker of its job has ended, and
\* its last event is terminal: the record of the job with status done or
\* error, or the one notice with status error when there is no record; no
\* event follows a terminal event and every event before it is not terminal.
\* A stream whose job has no running worker any more is sent a terminal
\* event by its next round.
C26_StreamEnds ==
    \A s \in Streams :
        /\ terminal_events[s] <= 1
        /\ terminal_events[s] = 1 <=> stream_pc[s] = "ended"
        /\ stream_pc[s] = "ended" => last_event[s] \in Terminal
        /\ (stream_pc[s] = "poll" /\ pc[stream_job[s]] = "finished") =>
               \/ get_job(stream_job[s]) = << >>
               \/ get_job(stream_job[s]).status \in Terminal

\* C27: a progress stream only reads: opening it, a round of it, or its
\* end by the client changes no job record, no slot, no worker, so that a
\* job ends the same with or without a stream.
C27_StreamOnlyReads ==
    [][stream_vars' # stream_vars => download_vars' = download_vars]_vars

\* a stream that had sent the record of a running job was abandoned, and
\* the job is done
C27_Witness ==
    \E s \in Streams :
        /\ stream_pc[s] = "abandoned"
        /\ last_event[s] \in {"downloading", "merging", "burning"}
        /\ get_job(stream_job[s]) # << >>
        /\ get_job(stream_job[s]).status = "done"

\* a request arrives and runs the sweep
SweepRuns == \E k \in JobIds : pc[k] = "idle" /\ pc'[k] = "make_job"

\* C29: the next sweep removes from the job table every job that is done
\* or error and older than the retention window, and removes its files,
\* whether the job has recorded artifacts or not.
C29_SweepRemovesOldJobs ==
    [][\A j \in DOMAIN jobs :
          (SweepRuns /\ jobs[j].status \in Terminal /\ j \in aged) =>
              /\ j \notin DOMAIN jobs'
              /\ files'[j] = NoFiles]_vars

\* C31: an upload or a deletion of credentials leaves the rotation cursor
\* as it is; a call of get_next_cookie reads the pool as it is then, serves
\* the file at the cursor modulo the size of that pool, a member of it, and
\* with an empty pool returns none and leaves the cursor as it is.
C31_CursorSurvivesPoolChanges ==
    [][/\ cookie_files' # cookie_files => pool_idx' = pool_idx
       /\ \A t \in Callers :
             /\ (cpc[t] = "get_pool" /\ cpc'[t] # "get_pool") =>
                    /\ pool'[t] = sorted(cookie_files)
                    /\ cookie_files = {} =>
                           (cpc'[t] = "return" /\ pool_idx' = pool_idx)
             /\ (cpc[t] = "lock" /\ cpc'[t] = "unlock") =>
                    idx'[t] = pool_idx % Len(pool[t])
             /\ (cpc[t] = "return" /\ cpc'[t] = "idle") =>
                    cookiefile'[t] = IF pool[t] = << >> THEN None
                                     ELSE pool[t][idx[t] + 1]]_vars

\* a file was served and then deleted; the next call found the cursor past
\* the end of the smaller pool and is about to return a file of that pool
C31_Witness ==
    /\ Len(served) = 2
    /\ served[1].cookie \notin cookie_files
    /\ served[2].cursor >= Cardinality(cookie_files)
    /\ served[2].cookie \in cookie_files
    /\ \E t \in Callers :
          /\ cpc[t] = "return"
          /\ Len(pool[t]) > 0
          /\ pool[t][idx[t] + 1] = served[2].cookie

\* C32: a worker goes on to mark its job queued only from an admission
\* attempt made while every slot was held; the status becomes queued in that
\* marking step and in no other, so a job whose attempt found a free slot is
\* never queued.
C32_QueuedOnlyWhenFull ==
    [][\A j \in JobIds :
          /\ (pc[j] = "acquire" /\ pc'[j] = "mark_queued") =>
                 /\ download_sem = 0
                 /\ Cardinality(Holders) = MAX_CONCURRENT_DOWNLOADS
          /\ (pc[j] = "acquire" /\ pc'[j] = "admitted") =>
                 (j \in DOMAIN jobs => jobs'[j].status # "queued")
          /\ (/\ j \in DOMAIN jobs'
              /\ jobs'[j].status = "queued"
              /\ (j \notin DOMAIN jobs \/ jobs[j].status # "queued")) =>
                 pc[j] = "mark_queued"]_vars

\* a job is queued while other workers hold every slot
C32_Witness ==
    \E j \in DOMAIN jobs :
        /\ jobs[j].status = "queued"
        /\ pc[j] = "waiting"
        /\ j \notin Holders
        /\ Cardinality(Holders) = MAX_CONCURRENT_DOWNLOADS

\* the passes of _download_subtitle a worker has still to go through
PassesLeft(t) ==
    CASE sub_pc[t] = "extract" -> 2 * (3 - attempt[t]) + 1
      [] sub_pc[t] = "sleep" -> 2 * (3 - attempt[t])
      [] sub_pc[t] = "scan" -> 1
      [] OTHER -> 0

Backoff == <<2, 4>>

\* C33: the acquisition calls the extraction service at most 3 times, sleeps
\* 2 s and then 4 s between the calls and not after the last one, returns the
\* subtitle of the first call that returns with one in the directory, and
\* returns none after the third call, after which run_download scans the
\* directory once; every step of it brings its end nearer, and during it
\* the worker holds none of the locks, so that no other thread waits for it.
C33_BoundedSubtitleAcquisition ==
    /\ [](\A t \in Threads :
             /\ tries[t] <= 3
             /\ scans[t] <= 1
             /\ slept[t] = SubSeq(Backoff, 1, Len(slept[t]))
             /\ sub_pc[t] = "extract" => Len(slept[t]) = tries[t]
             /\ sub_pc[t] \in {"sleep", "scan", "update_after", "after_locked", "ended"} =>
                    Len(slept[t]) = tries[t] - 1
             /\ sub_pc[t] \in {"update_after", "after_locked", "ended"} =>
                    /\ sub_found[t] \in {None, "subtitle"}
                    /\ scans[t] = 1 => tries[t] = 3
                    /\ sub_found[t] = None => (scans[t] = 1 /\ ~job_dir[t])
                    /\ job_dir[t] => sub_found[t] = "subtitle"
             /\ sub_pc[t] \in SubtitleStagePcs =>
                    \A l \in DOMAIN held : held[l] # t)
    /\ [][\A t \in Threads :
             /\ (sub_pc[t] \in SubtitleStagePcs /\ sub_pc'[t] # sub_pc[t]) =>
                    PassesLeft(t)' < PassesLeft(t)
             /\ (sub_pc[t] = "extract" /\ job_dir'[t] /\ sub_pc'[t] = "sleep") =>
                    tries'[t] < 3 /\ sub_found'[t] = Unbound
             /\ (sub_pc[t] = "extract" /\ sub_found'[t] = "subtitle") =>
                    sub_pc'[t] = "scan"
             /\ (sub_pc[t] = "scan" /\ sub_found[t] = "subtitle") =>
                    scans'[t] = scans[t]]_vars

\* a worker has slept twice, made its third call without finding a subtitle
\* and scanned the directory, while the other worker was inside update_job
C33_Witness ==
    \E t, u \in Threads :
        /\ t # u
        /\ tries[t] = 3
        /\ slept[t] = <<2, 4>>
        /\ scans[t] = 1
        /\ sub_found[t] = "subtitle"
        /\ sub_pc[t] = "update_after"
        /\ held["jobs_lock"] = u
        /\ sub_pc[u] = "original_locked"

\* C34: a worker calls the base download at most twice, first in the format
\* of the request and then in `best`; the second call is made only after the
\* first raised 'Requested format is not available', and with the job
\* directory emptied; after any other failure of the first call, and after
\* any failure of the second, the worker ends with the job in error and the
\* message of that failure in its error field.
C34_OneFallbackThenError ==
    /\ [](\A t \in Threads :
             /\ base_calls[t] = SubSeq(<<"quality", "best">>, 1, Len(base_calls[t]))
             /\ Len(base_calls[t]) = 2 =>
                    failures[t][1] = "Requested format is not available"
             /\ (failures[t] # << >> /\ Len(base_calls[t]) = 1
                     /\ base_pc[t] \notin {"except", "second"}) =>
                    failures[t][1] # "Requested format is not available"
             /\ (base_pc[t] = "ended" /\ Len(failures[t]) = Len(base_calls[t])) =>
                    /\ jobs[t].status = "error"
                    /\ jobs[t].error = failures[t][Len(failures[t])]
                    /\ jobs[t].completed_at # None
             /\ Len(failures[t]) = 2 => base_pc[t] \in {"handler", "ended"}
             /\ (Len(failures[t]) = 1 /\ Len(base_calls[t]) = 1) =>
                    base_pc[t] \in {"except", "second", "handler", "ended"})
    /\ [][\A t \in Threads :
             Len(base_calls'[t]) = 2 /\ Len(base_calls[t]) = 1 =>
                 ~partial[t] /\ base_pc[t] = "second"]_vars

\* one worker ended in error after both calls failed, the other after its
\* first call failed for another reason than the format
C34_Witness ==
    \E t, u \in Threads :
        /\ base_pc[t] = "ended" /\ base_pc[u] = "ended"
        /\ Len(failures[t]) = 2
        /\ failures[t][2] = "other"
        /\ jobs[t].error = "other"
        /\ base_calls[u] = <<"quality">>
        /\ failures[u] = <<"other">>
        /\ jobs[u].status = "error"

\* C35: once the burn-in of a worker has ended, by exit 0, by a non-zero
\* exit or by an exception, burn_sub.srt is no longer in the job directory.
C35_TemporaryCopyRemoved ==
    \A t \in Threads : burn_pc[t] \in {"returned", "raised", "ended"} => ~simple_sub[t]

\* the record and the file a request of an artifact looks at
Asked(f) == IF f.file_type = "burned" THEN "burned" ELSE "original"
PathOf(j, f) ==
    IF Asked(f) = "burned" THEN jobs[j].burned_filepath
                           ELSE jobs[j].original_filepath

\* C36: a request of an artifact is answered with the file only when the
\* job is done and the path asked for, burned or else original, is set; it
\* is answered not-found for a job that is not there, not terminal or in
\* error; it leaves the job table as it is; and a job that recorded its
\* original file and then ended, whatever happened after the recording, is
\* given its original file as long as the file is there.
C36_FetchOffersRecordedArtifact ==
    [][fetched' # fetched =>
          LET f == fetched'
          IN  /\ jobs' = jobs
              /\ f.code = 200 =>
                     /\ f.job \in DOMAIN jobs
                     /\ jobs[f.job].status = "done"
                     /\ PathOf(f.job, f) # None
              /\ (f.job \notin DOMAIN jobs \/ jobs[f.job].status \notin Terminal) =>
                     f.code = 404
              /\ (/\ f.job \in DOMAIN jobs
                  /\ Asked(f) = "original"
                  /\ jobs[f.job].status \in Terminal
                  /\ jobs[f.job].original_filepath # None
                  /\ files[f.job].original # "absent") =>
                     f.code = 200]_vars

\* C37: every record of the job table, and so every copy get_job hands out,
\* is a whole one: done goes with progress 100, completed_at set and no
\* error; error goes with an error message and completed_at set; any other
\* status goes with completed_at unset.
C37_SnapshotsAreWhole ==
    \A j \in JobIds :
        LET job == get_job(j)
        IN  job # << >> =>
               /\ job.status = "done" =>
                      /\ job.progress = 100
                      /\ job.completed_at # None
                      /\ job.error = None
               /\ job.status = "error" =>
                      /\ job.error # None
                      /\ job.completed_at # None
               /\ job.status \notin Terminal => job.completed_at = None

\* the table holds a done job, a job in error and a job under way at once
C37_Witness ==
    \E j, k, l \in DOMAIN jobs :
        /\ jobs[j].status = "done"
        /\ jobs[k].status = "error"
        /\ jobs[l].status \notin Terminal

\* C38: no step, the sweep included, takes a job out of the table while its
\* status is not terminal, however old its files are; and an id that was
\* given out and is no longer in the table, a removed one, is not in the
\* table after the next step either, whatever update_job is called with.
C38_SweepSparesRunningJobs ==
    [][/\ \A j \in DOMAIN jobs :
             jobs[j].status \notin Terminal => j \in DOMAIN jobs'
       /\ \A j \in made : j \notin DOMAIN jobs => j \notin DOMAIN jobs']_vars

\* the sweep has removed a job and then update_job was called for its id,
\* while a job under way with a file older than the cutoff is still there
C38_Witness ==
    /\ table_call.op = "update_job"
    /\ table_call.job \in made \ DOMAIN jobs
    /\ \E k \in DOMAIN jobs :
          /\ jobs[k].status = "downloading"
          /\ jobs[k].original_filepath # None
          /\ files[k].original = "old"

\* the lock a thread is about to take, and the thread it waits for
Wants(t) == IF Running(t) /\ Step(t).op = "acquire" THEN Step(t).arg ELSE None
WaitsFor(t, u) == Wants(t) # None /\ held[Wants(t)] = u

Time(ts) == (ts.h * 3600 + ts.mn * 60 + ts.s) * 1000 + ts.ms

\* C40: a call of _fix_srt_overlaps on the file an earlier call wrote
\* writes the blocks that call wrote, each with the start and the end it
\* had: no time changes and no block is dropped.  In any call no start and
\* no end of a block is moved to an earlier time, and a block that does not
\* start before the end of the block before it, as that block was written,
\* is left as it was.
C40_FixIsIdempotent ==
    fix_pc = "returned" =>
        /\ previous.called =>
               /\ Len(Blocks(fixed)) = Len(Blocks(previous.fixed))
               /\ \A k \in 1..Len(Blocks(fixed)) :
                      Out(k) = Blocks(previous.fixed)[k][2]
        /\ Len(Blocks(fixed)) = Len(Blocks(entries))
        /\ \A k \in 1..Len(Blocks(entries)) :
               /\ Time(Out(k).start) >= Time(In(k).start)
               /\ Time(Out(k).end) >= Time(In(k).end)
               /\ (k = 1 \/ (k > 1 /\ Time(In(k).start) >= Time(Out(k - 1).end))) =>
                      Out(k) = In(k)
====
